---- MODULE Spec2Model ----
(***************************************************************************)
(* The monitoring process of the iceberg bot (monitor.js, network.js) as a *)
(* state machine: the registry monitoringConfig, the order-book store      *)
(* orderBooks, the monitoring loop, the control-message handlers, and the   *)
(* exchange they talk to.  Every await of the source is a point where the  *)
(* other coroutines of the event loop (message handlers, feed callbacks)   *)
(* and the exchange may take steps.                                        *)
(*                                                                         *)
(* Units.  Probabilities are integers in units of 1/PriceScale; the source *)
(* scales them by 1e20 (IMPLIED_ODDS_MULTIPLIER), the model by PriceScale,  *)
(* with feed prices whole multiples of 1e16.  Stakes on the exchange are in *)
(* raw token units, TokenScale per base unit; configuration values are in  *)
(* base units.  maxVig is in units of 1/PriceScale, edge in whole percent. *)
(* Times and timestamps are in units of TimeUnit = 500 ms; TLC's integers   *)
(* are 32 bits wide, so the clock runs in the window just above 10^12 ms,   *)
(* the value the 'start' handler compares timestamps with.                  *)
(***************************************************************************)
EXTENDS Integers, Sequences, FiniteSets, TLC

VARIABLES
    monitoringConfig,  \* the registry: a Map, kept as its list of [key, val] in insertion order
    orderBooks,        \* per market, the append-only list of normalized entries
    feedPos,           \* per market, how many batches of Feed the store has been handed
    subscription,      \* per market: "none", "snapshot" (initial fetch in flight), "live"
    exOrders,          \* the exchange: the operator's active orders
    trades,            \* the exchange: per market, stake matched since the position's start (raw units)
    nextId,            \* the exchange: number of orders created so far
    loop,              \* the monitoringLoop coroutine: position and locals
    stops,             \* per market, the coroutine of a 'stop' message handler
    sweep,             \* the stopAllMarkets coroutine
    alive,             \* FALSE once the process has exited
    sent,              \* status messages handed to process.send
    started,           \* the markets a 'start' message has been received for
    now,               \* Date.now(), in units of TimeUnit milliseconds
    lastPostAt,        \* the exchange: per market, when it last created an order of the operator
    inbox,             \* control messages the parent has sent and the process has not yet received
    received,          \* per market, the records handleOrderBookUpdate has been handed, in order
    fillRecord,        \* the exchange: per order it has matched, the market and the stake matched so far
    observedFill,      \* per market, the filled volume the latest tick of the market computed
    parent             \* the CLI process: where its main menu is, and its handle of this process

vars == <<monitoringConfig, orderBooks, feedPos, subscription, exOrders, trades,
          nextId, loop, stops, sweep, alive, sent, started, now, lastPostAt, inbox,
          received, fillRecord, observedFill, parent>>

(***************************************************************************)
(* Bounds of the model.                                                    *)
(***************************************************************************)
MaxOrders == 2          \* orders the exchange creates in a run
MaxMatched == 2000      \* base units the exchange matches per market in a run
MaxElapsed == 16        \* units of time the clock is followed for after the process starts
MaxBook == 3            \* records a market's store is handed where the feed is arbitrary
MaxFillOrders == 5      \* orders the exchange creates in the run of the fill scenario

(***************************************************************************)
(* Program constants.                                                      *)
(***************************************************************************)
PriceScale == 10000         \* one probability unit; 1e20 in the source
LadderStep == 25            \* ODDS_LADDER_STEP_SIZE 0.0025, in units of 1/PriceScale
TokenScale == 1000000       \* raw units per base unit
MinRemaining == 10          \* below this remaining need the position is complete
DefaultMinOrderSize == 100  \* handleOrderBookUpdate's minOrderSize default
MaxRetries == 3             \* fetchActiveOrders' attempts
SleepTicks == 7             \* the loop's 3500 ms sleep, in units of 500 ms
MsThreshold == 2000000000   \* 1e12 ms: below it the 'start' handler takes a startTime for seconds
SecondsToMs == 1000         \* config.startTime * 1000
ProcessStart == 2000000100  \* Date.now() when the process starts

Markets == {"m1", "m2"}
MAKER_ADDRESS == "me"
None == "none"

(***************************************************************************)
(* The Map monitoringConfig.                                               *)
(***************************************************************************)
MapKeys(map) == {map[i].key : i \in 1..Len(map)}
MapHas(map, k) == k \in MapKeys(map)
MapIndex(map, k) == CHOOSE i \in 1..Len(map) : map[i].key = k
MapGet(map, k) == map[MapIndex(map, k)].val
MapSet(map, k, v) ==
    IF MapHas(map, k)
    THEN [map EXCEPT ![MapIndex(map, k)] = [key |-> k, val |-> v]]
    ELSE Append(map, [key |-> k, val |-> v])
MapDelete(map, k) ==
    IF MapHas(map, k)
    THEN LET p == MapIndex(map, k)
         IN  [i \in 1..(Len(map) - 1) |-> IF i < p THEN map[i] ELSE map[i + 1]]
    ELSE map
\* An iterator that keeps its position when an entry at or before it is deleted.
IterAfterDeleteKeepsPosition(map, k, idx) == idx

\* A live Map iterator that has yielded the first idx entries, after key k is deleted.
IterAfterDelete(map, k, idx) ==
    IF MapHas(map, k) /\ MapIndex(map, k) <= idx THEN idx - 1 ELSE idx

(***************************************************************************)
(* Order-book store and market data.                                       *)
(***************************************************************************)
\* A raw feed record, by the positions the source reads: [0] orderHash, [1] status,
\* [3] maker, [4] totalBetSize (raw units), [5] percentageOdds, [9] isMakerBettingOutcomeOne.
Raw(h, st, mk, sz, odds, o1) ==
    [orderHash |-> h, status |-> st, maker |-> mk, totalBetSize |-> sz,
     percentageOdds |-> odds, isMakerBettingOutcomeOne |-> o1]

\* BigNumber.toFixed(4) of raw / 1e6 (ROUND_HALF_UP), in units of 1e-4 base units.
ToFixed4(raw) == (raw + 50) \div 100

\* newOrderBook of handleOrderBookUpdate: the records kept, as the store holds them.
newOrderBook(orders) ==
    LET Kept(o) == ~(o.totalBetSize < DefaultMinOrderSize * TokenScale \/ o.maker = MAKER_ADDRESS)
        kept == SelectSeq(orders, Kept)
    IN  [i \in 1..Len(kept) |->
            [orderHash |-> kept[i].orderHash, status |-> kept[i].status,
             maker |-> kept[i].maker, totalBetSize |-> ToFixed4(kept[i].totalBetSize),
             percentageOdds |-> kept[i].percentageOdds,
             isMakerBettingOutcomeOne |-> kept[i].isMakerBettingOutcomeOne]]

\* handleOrderBookUpdate putting the batch in the place of the market's list.
handleOrderBookUpdateOverwrites(orderBook, orders) == newOrderBook(orders)

\* orderBooks.set(marketHash, [...orderBook, ...newOrderBook])
handleOrderBookUpdate(orderBook, orders) == orderBook \o newOrderBook(orders)

\* fetchInitialOrderBook rewrites every record of the snapshot with status "ACTIVE".
formattedOrders(data) == [i \in 1..Len(data) |-> [data[i] EXCEPT !.status = "ACTIVE"]]

Max(S, dflt) == IF S = {} THEN dflt ELSE CHOOSE x \in S : \A y \in S : y <= x
Min2(a, b) == IF a < b THEN a ELSE b

\* A scan that skips no entry, whatever its size.
ConsideredWhateverSize(orders, minOrderSize) == 1..Len(orders)

\* The entries a scan with dust threshold minOrderSize does not skip.
Considered(orders, minOrderSize) ==
    {i \in 1..Len(orders) : ~(orders[i].totalBetSize < minOrderSize * 10000)}

\* The entries of a store that a scan with the threshold minOrderSize counts for the
\* side betting outcome one (o1 = TRUE) or outcome two.
QualifyingOn(orders, o1, minOrderSize) ==
    {i \in Considered(orders, minOrderSize) : orders[i].isMakerBettingOutcomeOne = o1}

\* The taker odds against the latest opposing entry instead of the best one.
bestTakerOddsOfLatest(orders, isUserBettingOutcomeOne, minOrderSize) ==
    LET opp == {i \in Considered(orders, minOrderSize) :
                    orders[i].isMakerBettingOutcomeOne # isUserBettingOutcomeOne}
    IN  PriceScale - (IF opp = {} THEN 0 ELSE orders[Max(opp, 0)].percentageOdds)

\* bestTakerOdds of getMarketDataFromOrderBook.
bestTakerOdds(orders, isUserBettingOutcomeOne, minOrderSize) ==
    LET opp == {i \in Considered(orders, minOrderSize) :
                    orders[i].isMakerBettingOutcomeOne # isUserBettingOutcomeOne}
        bestMakerProbOpposite == Max({orders[i].percentageOdds : i \in opp} \cup {0}, 0)
    IN  PriceScale - bestMakerProbOpposite

\* getVigFromOrderBook reporting 0 as soon as one side has no qualifying entry.
vigZeroUnlessBothSides(orders, minOrderSize) ==
    IF QualifyingOn(orders, TRUE, minOrderSize) = {} \/ QualifyingOn(orders, FALSE, minOrderSize) = {}
    THEN 0
    ELSE (PriceScale - Max({orders[i].percentageOdds : i \in QualifyingOn(orders, FALSE, minOrderSize)}, 0))
         + (PriceScale - Max({orders[i].percentageOdds : i \in QualifyingOn(orders, TRUE, minOrderSize)}, 0))
         - PriceScale

\* getVigFromOrderBook in exact arithmetic, in units of 1/PriceScale.
getVigFromOrderBook(orders, minOrderSize) ==
    LET valid == Considered(orders, minOrderSize)
        bestMakerProbO1 ==
            Max({orders[i].percentageOdds : i \in {j \in valid : orders[j].isMakerBettingOutcomeOne}} \cup {0}, 0)
        bestMakerProbO2 ==
            Max({orders[i].percentageOdds : i \in {j \in valid : ~orders[j].isMakerBettingOutcomeOne}} \cup {0}, 0)
        bestTakerOddsO1 == PriceScale - bestMakerProbO2
        bestTakerOddsO2 == PriceScale - bestMakerProbO1
    IN  IF valid = {} THEN 0 ELSE (bestTakerOddsO1 + bestTakerOddsO2) - PriceScale

(***************************************************************************)
(* JavaScript numbers.  The source computes probabilities and the vig in   *)
(* IEEE-754 doubles.  A double of magnitude below 2 is held here exactly,  *)
(* as a sign and a magnitude counted in units of 2^-58 and kept in two     *)
(* limbs of 30 bits; every operation rounds its exact result to 53         *)
(* significant bits, ties to even, as the hardware does.                   *)
(***************************************************************************)
RECURSIVE Pow2(_)
Pow2(n) == IF n = 0 THEN 1 ELSE 2 * Pow2(n - 1)

Limb == Pow2(30)

Mag(hi, lo) == [hi |-> hi, lo |-> lo]
MagZero == Mag(0, 0)
MagOne == Mag(Pow2(28), 0)
MagLess(a, b) == a.hi < b.hi \/ (a.hi = b.hi /\ a.lo < b.lo)
MagAdd(a, b) == Mag(a.hi + b.hi + (a.lo + b.lo) \div Limb, (a.lo + b.lo) % Limb)
MagSub(a, b) ==
    IF a.lo >= b.lo THEN Mag(a.hi - b.hi, a.lo - b.lo)
    ELSE Mag(a.hi - b.hi - 1, (a.lo - b.lo) + Limb)
\* a * 2^n, for 0 <= n <= 30.
MagShift(a, n) ==
    Mag(a.hi * Pow2(n) + a.lo \div Pow2(30 - n), (a.lo % Pow2(30 - n)) * Pow2(n))

RECURSIVE BitLen(_)
BitLen(n) == IF n = 0 THEN 0 ELSE 1 + BitLen(n \div 2)
MagBits(a) == IF a.hi > 0 THEN 30 + BitLen(a.hi) ELSE BitLen(a.lo)

\* Rounding to 53 significant bits, ties to even.
RoundToDouble(a) ==
    LET k == MagBits(a) - 53
    IN  IF k <= 0 THEN a
        ELSE LET q == Pow2(k)
                 rem == a.lo % q
                 odd == (a.lo \div q) % 2 = 1
                 up == 2 * rem > q \/ (2 * rem = q /\ odd)
                 lo == (a.lo - rem) + (IF up THEN q ELSE 0)
             IN  Mag(a.hi + lo \div Limb, lo % Limb)

Dbl(neg, mag) == [neg |-> neg /\ mag # MagZero, mag |-> mag]
DblZero == Dbl(FALSE, MagZero)
DblOne == Dbl(FALSE, MagOne)
\* x + y and x - y of two doubles.
DblAdd(x, y) ==
    IF x.neg = y.neg THEN Dbl(x.neg, RoundToDouble(MagAdd(x.mag, y.mag)))
    ELSE IF MagLess(x.mag, y.mag) THEN Dbl(y.neg, RoundToDouble(MagSub(y.mag, x.mag)))
    ELSE Dbl(x.neg, RoundToDouble(MagSub(x.mag, y.mag)))
DblSub(x, y) == DblAdd(x, Dbl(~y.neg, y.mag))
DblPositive(x) == ~x.neg /\ x.mag # MagZero

\* One step of the long division by PriceScale: n more bits of the quotient.
DivStep(d, n) ==
    [q |-> MagAdd(MagShift(d.q, n), Mag(0, (d.r * Pow2(n)) \div PriceScale)),
     r |-> (d.r * Pow2(n)) % PriceScale]

\* parseFloat(order.percentageOdds) / 1e20 for percentageOdds = k * 1e16, with k = 0
\* or 157 <= k < 2 * PriceScale: the string is read exactly (k * 1e16 is below 2^53
\* times a power of two it divides) and the division is correctly rounded, so the
\* result is the double nearest k / PriceScale.
probability(k) ==
    IF k <= 0 THEN DblZero
    ELSE LET j == IF k >= PriceScale THEN 0
                  ELSE CHOOSE i \in 1..6 : k * Pow2(i) >= PriceScale /\ k * Pow2(i - 1) < PriceScale
             d0 == DivStep([q |-> Mag(0, k \div PriceScale), r |-> k % PriceScale], 2 + j)
             d1 == DivStep(d0, 10)
             d2 == DivStep(d1, 10)
             d3 == DivStep(d2, 10)
             d4 == DivStep(d3, 10)
             d == DivStep(d4, 10)
             up == 2 * d.r > PriceScale \/ (2 * d.r = PriceScale /\ d.q.lo % 2 = 1)
             m == IF up THEN MagAdd(d.q, Mag(0, 1)) ELSE d.q
         IN  Dbl(FALSE, MagShift(m, 6 - j))

\* (bestTakerOddsO1 + bestTakerOddsO2) - 1 with bestTakerOddsO1 = 1 - bestMakerProbO2
\* and bestTakerOddsO2 = 1 - bestMakerProbO1, in doubles.
vigOfProbabilities(bestMakerProbO1, bestMakerProbO2) ==
    DblSub(DblAdd(DblSub(DblOne, bestMakerProbO2), DblSub(DblOne, bestMakerProbO1)), DblOne)

\* The best maker probability of a side among the entries counted, 0 when there is
\* none (Math.max keeps the order of the prices, the division being monotone).
bestMakerProb(orders, o1, minOrderSize) ==
    Max({orders[i].percentageOdds : i \in QualifyingOn(orders, o1, minOrderSize)} \cup {0}, 0)

\* getVigFromOrderBook as the double it returns.  processMarket compares it with
\* maxVig; the integer getVigFromOrderBook above gives the same answer to that
\* comparison wherever the exact vig and maxVig differ by a multiple of 1/PriceScale
\* other than 0, which is so for every book and config of the specifications below.
vigNumber(orders, minOrderSize) ==
    IF Considered(orders, minOrderSize) = {}
    THEN DblZero
    ELSE vigOfProbabilities(probability(bestMakerProb(orders, TRUE, minOrderSize)),
                            probability(bestMakerProb(orders, FALSE, minOrderSize)))

\* Laddering to the next multiple of the step above the odds.
roundUpOddsToNearestStep(num, den) ==
    ((num + den * LadderStep - 1) \div (den * LadderStep)) * LadderStep

\* roundDownOddsToNearestStep on odds given as the fraction num / den of a probability unit.
roundDownOddsToNearestStep(num, den) == (num \div (den * LadderStep)) * LadderStep

\* bestTakerOdds * (1 - edge / 100), as the fraction TargetNum / 100, in exact
\* arithmetic.  The source forms the product in doubles and hands it to BigNumber
\* by its shortest decimal form; the laddered price is the same unless the exact
\* product is a multiple of the step and the double product falls just below it,
\* which no price and edge of the specifications below brings about.
TargetNum(taker, edge) == taker * (100 - edge)
\* The laddered price both postOrderForPosition and processMarket derive.
LadderedOdds(taker, edge) == roundDownOddsToNearestStep(TargetNum(taker, edge), 100)

(***************************************************************************)
(* The push feed of a market: the batches the store is handed, in order.   *)
(* The first is also what the initial snapshot returns.                    *)
(***************************************************************************)
Feed ==
    << << Raw("a1", "ACTIVE", "x", 150 * TokenScale, 5000, TRUE),
          Raw("a2", "ACTIVE", "x", 150 * TokenScale, 4300, FALSE) >>,
       << Raw("a3", "ACTIVE", "y", 150 * TokenScale, 4900, FALSE),
          Raw("a4", "ACTIVE", "y", 50 * TokenScale, 9000, FALSE),
          Raw("a5", "ACTIVE", MAKER_ADDRESS, 150 * TokenScale, 4900, TRUE) >>,
       << Raw("a6", "ACTIVE", "x", 150 * TokenScale, 5000, FALSE),
          Raw("a7", "ACTIVE", "y", 150 * TokenScale, 5100, TRUE) >> >>

(***************************************************************************)
(* Positions.                                                              *)
(***************************************************************************)
Position(outcome, maxFill, increments, edge, maxVig, minOrderSize, marketDetails) ==
    [outcome |-> outcome, maxFill |-> maxFill, increments |-> increments, edge |-> edge,
     maxVig |-> maxVig, minOrderSize |-> minOrderSize, marketDetails |-> marketDetails]

\* The configs a 'start' message carries.
StartConfigs ==
    { Position(1, 20, 20, 2, 200, 100, TRUE),
      Position(1, 1000, 990, 2, 200, 100, TRUE),
      Position(2, 40, 5, 2, 200, 100, FALSE) }

\* The partial configs an 'update' message carries.
UpdateConfigs == { [maxVig |-> 50] }

NoPosition == Position(0, 0, 0, 0, 0, 0, FALSE)

\* A startTime as a 'start' message carries it: a number, a non-numeric string, or
\* nothing (the configs above carry none).
Num(n) == [type |-> "number", n |-> n]
NotNumeric == [type |-> "string"]
Undefined == [type |-> "undefined"]
StartTimeOf(config) == IF "startTime" \in DOMAIN config THEN config.startTime ELSE Undefined

\* The 'start' handler keeps the startTime it is given.
keepStartTime(config, dateNow) ==
    LET startTime == StartTimeOf(config)
    IN  IF startTime.type = "number" THEN startTime.n ELSE dateNow

\* The startTime the 'start' handler registers: Date.now() for a missing, zero or
\* non-numeric one, a value below 1e12 taken for seconds and multiplied by 1000.
normalizeStartTime(config, dateNow) ==
    LET startTime == StartTimeOf(config)
    IN  IF startTime.type # "number" \/ startTime.n = 0
        THEN dateNow
        ELSE IF startTime.n < MsThreshold THEN startTime.n * SecondsToMs ELSE startTime.n

\* config.startTime = t
WithStartTime(config, t) ==
    [f \in DOMAIN config \cup {"startTime"} |-> IF f = "startTime" THEN t ELSE config[f]]

\* The 'update' handler stores the config it is given in place of the position.
MergeReplaces(pos, config) == config

\* { ...pos, ...config } of the 'update' handler.
Merge(pos, config) ==
    [f \in DOMAIN pos \cup DOMAIN config |-> IF f \in DOMAIN config THEN config[f] ELSE pos[f]]

(***************************************************************************)
(* The exchange.                                                           *)
(***************************************************************************)
\* GET /orders?marketHashes=&maker= : the operator's active orders on a market.
ActiveOrders(orders, marketHash) ==
    {[orderHash |-> o.orderHash, percentageOdds |-> o.percentageOdds] :
        o \in {x \in orders : x.marketHash = marketHash}}

\* POST /orders/cancel/v2 taking effect.
Cancelled(orders, orderHashes) == {o \in orders : o.orderHash \notin orderHashes}

\* activeOrders.map(o => o.orderHash)
HashesOf(activeOrders) == {o.orderHash : o \in activeOrders}

\* cancelOrdersForMonitoring posting its request whatever the list.
cancelAlwaysSendsRequest(orderHashes) == TRUE

\* cancelOrdersForMonitoring: if (!orderHashes.length) return; otherwise the request
\* POST /orders/cancel/v2 is signed and sent.
cancelSendsRequest(orderHashes) == orderHashes # {}

(***************************************************************************)
(* The monitoring loop.                                                    *)
(***************************************************************************)
\* What the latest call of postOrderForPosition in the iteration returned: nothing yet,
\* null, or the order's identity hash.
NotReturned == [kind |-> "none", orderHash |-> 0]
Null == [kind |-> "null", orderHash |-> 0]
Hash(orderHash) == [kind |-> "hash", orderHash |-> orderHash]

\* visited and caught are the iteration's log: the markets of its "Processing market"
\* lines and of its "Error in processMarket" lines.
LoopAt(pc, idx, visited, caught, m, cfg) ==
    [pc |-> pc, idx |-> idx, visited |-> visited, caught |-> caught, m |-> m, cfg |-> cfg,
     remainingNeeded |-> 0, bestTakerOdds |-> 0, attempt |-> 0,
     orderHashes |-> {}, amount |-> 0, percentageOdds |-> 0, returned |-> NotReturned,
     waits |-> 0]

\* The for-of over monitoringConfig.entries(): the next entry's processMarket runs to
\* its first await (the trades request); after the last entry the loop sleeps.
LoopNext(map, idx, visited, caught) ==
    IF idx < Len(map)
    THEN LoopAt("fill", idx + 1, visited \cup {map[idx + 1].key}, caught,
                map[idx + 1].key, map[idx + 1].val)
    ELSE LoopAt("sleep", 0, visited, caught, None, NoPosition)

\* processMarket returns normally.
Return(map, l) == LoopNext(map, l.idx, l.visited, l.caught)

\* postOrderForPosition returns value, and processMarket returns after it.
Returned(map, l, value) == [Return(map, l) EXCEPT !.returned = value]

\* A catch around the whole for-of: the error ends the iteration.
CaughtEndsIteration(map, l) ==
    LoopAt("sleep", 0, l.visited, l.caught \cup {l.m}, None, NoPosition)

\* processMarket throws: monitoringLoop's catch logs the error and the for-of goes on.
Caught(map, l) == LoopNext(map, l.idx, l.visited, l.caught \cup {l.m})

\* monitoringConfig.delete(k) as the live iterators of the loop and of the sweep see it.
LoopAfterDelete(map, k, l) == [l EXCEPT !.idx = IterAfterDelete(map, k, l.idx)]

\* getFilledVolumeSinceStart: the sum of the stakes of the trades the exchange lists
\* for the market and the operator since the position's start (raw units), or 0
\* when the query fails, times out or is answered in another format.
getFilledVolumeSinceStart(ok, stakes) == IF ok THEN stakes ELSE 0

\* The completion test of processMarket, step 2 (amounts in raw units).
IsComplete(remainingNeeded) == remainingNeeded < MinRemaining * TokenScale

\* The comparison the wrong way round.
VigTooHighFlipped(vig, maxVig) == vig < maxVig

\* The vig test of processMarket, step 3.
VigTooHigh(vig, maxVig) == vig > maxVig

\* The whole increment, whatever is still needed.
sizeToPostIncrement(remainingNeeded, increments) == increments * TokenScale

\* Math.min(remainingNeeded, increments), in raw units.
sizeToPost(remainingNeeded, increments) == Min2(remainingNeeded, increments * TokenScale)

\* The repost test after the cancel of step 5.
TooSmallToRepost(size) == size < MinRemaining * TokenScale

\* needsRepost of processMarket, step 5.
needsRepost(activeOrders, desiredLadderedOdds) ==
    \E o \in activeOrders : o.percentageOdds # desiredLadderedOdds

\* postOrderForPosition going on to sign whatever the price, for a registered market.
PostProceedsAtAnyPrice(map, orders, marketHash, outcome, edge, minOrderSize) ==
    MapHas(map, marketHash)

\* postOrderForPosition up to its await of the signature: TRUE when it goes on to sign.
PostProceeds(map, orders, marketHash, outcome, edge, minOrderSize) ==
    LET taker == bestTakerOdds(orders, outcome = 1, minOrderSize)
        num == TargetNum(taker, edge)
    IN  /\ MapHas(map, marketHash)
        /\ ~(taker <= 0 \/ taker >= PriceScale)
        /\ ~(num <= 0 \/ num >= PriceScale * 100)
        /\ MapHas(map, marketHash)

\* The loop inside postOrderForPosition(marketHash, outcome, amount, edge, minOrderSize).
postOrderForPosition(map, orders, l, amount) ==
    IF PostProceeds(map, orders, l.m, l.cfg.outcome, l.cfg.edge, l.cfg.minOrderSize)
    THEN [l EXCEPT !.pc = "sign", !.amount = amount, !.orderHashes = {},
                   !.percentageOdds = LadderedOdds(bestTakerOdds(orders, l.cfg.outcome = 1, l.cfg.minOrderSize), l.cfg.edge)]
    ELSE Returned(map, l, Null)

(***************************************************************************)
(* Initial state: the module has been loaded and monitoringLoop() called;  *)
(* both maps are empty, so the first iteration finds nothing and sleeps.   *)
(***************************************************************************)
StopIdle == [pc |-> "idle", attempt |-> 0, orderHashes |-> {}]
SweepAt(pc, idx, m, all) == [pc |-> pc, idx |-> idx, m |-> m, attempt |-> 0, allOrderHashes |-> all]
SweepIdle == SweepAt("idle", 0, None, {})

Init ==
    /\ monitoringConfig = << >>
    /\ orderBooks = [m \in Markets |-> << >>]
    /\ feedPos = [m \in Markets |-> 0]
    /\ subscription = [m \in Markets |-> "none"]
    /\ exOrders = {}
    /\ trades = [m \in Markets |-> 0]
    /\ nextId = 0
    /\ loop = LoopAt("sleep", 0, {}, {}, None, NoPosition)
    /\ stops = [m \in Markets |-> StopIdle]
    /\ sweep = SweepIdle
    /\ alive = TRUE
    /\ sent = << >>
    /\ started = {}
    /\ now = ProcessStart
    /\ lastPostAt = [m \in Markets |-> 0]
    /\ inbox = {}
    /\ received = [m \in Markets |-> << >>]
    /\ fillRecord = << >>
    /\ observedFill = [m \in Markets |-> 0]
    /\ parent = [pc |-> "menu", monitoringProcess |-> TRUE]

\* Deleting key k from the registry, with both live iterators adjusted.
DeleteMarket(k) ==
    /\ monitoringConfig' = MapDelete(monitoringConfig, k)
    /\ sweep' = [sweep EXCEPT !.idx = IterAfterDelete(monitoringConfig, k, sweep.idx)]

(***************************************************************************)
(* Control messages: process.on("message").                                *)
(***************************************************************************)
\* action === "start".  A run starts each market at most once and the exchange holds
\* no earlier trade of it, so trades[m] is what the trades query of the position sums
\* whatever startTime the handler registers.
Start(m, config) ==
    /\ alive
    /\ m \notin started
    /\ started' = started \cup {m}
    /\ monitoringConfig' = MapSet(monitoringConfig, m, WithStartTime(config, normalizeStartTime(config, now)))
    /\ subscription' = [subscription EXCEPT ![m] = IF @ = "none" THEN "snapshot" ELSE @]
    /\ UNCHANGED <<orderBooks, feedPos, exOrders, trades, nextId, loop, stops, sweep,
                   alive, sent,
                   now, lastPostAt, inbox, received, fillRecord, observedFill, parent>>

\* action === "update"
Update(m, config) ==
    /\ alive
    /\ monitoringConfig' =
         IF MapHas(monitoringConfig, m)
         THEN MapSet(monitoringConfig, m, Merge(MapGet(monitoringConfig, m), config))
         ELSE monitoringConfig
    /\ UNCHANGED <<orderBooks, feedPos, subscription, exOrders, trades, nextId, loop,
                   stops, sweep, alive, sent, started,
                   now, lastPostAt, inbox, received, fillRecord, observedFill, parent>>

\* subscribeToOrderBook: the initial snapshot's response, then channel.subscribe.
SnapshotResponse(m, ok) ==
    /\ alive
    /\ subscription[m] = "snapshot"
    /\ subscription' = [subscription EXCEPT ![m] = "live"]
    /\ IF ok
       THEN /\ orderBooks' = [orderBooks EXCEPT ![m] = handleOrderBookUpdate(@, formattedOrders(Feed[1]))]
            /\ feedPos' = [feedPos EXCEPT ![m] = 1]
       ELSE UNCHANGED <<orderBooks, feedPos>>
    /\ UNCHANGED <<monitoringConfig, exOrders, trades, nextId, loop, stops, sweep, alive,
                   sent, started,
                   now, lastPostAt, inbox, fillRecord, observedFill, parent>>
    /\ received' = IF ok THEN [received EXCEPT ![m] = @ \o formattedOrders(Feed[1])] ELSE received

\* The channel callback: a push batch.
PushUpdate(m) ==
    /\ alive
    /\ subscription[m] = "live"
    /\ feedPos[m] < Len(Feed)
    /\ orderBooks' = [orderBooks EXCEPT ![m] = handleOrderBookUpdate(@, Feed[feedPos[m] + 1])]
    /\ feedPos' = [feedPos EXCEPT ![m] = @ + 1]
    /\ UNCHANGED <<monitoringConfig, subscription, exOrders, trades, nextId, loop, stops,
                   sweep, alive, sent, started,
                   now, lastPostAt, inbox, fillRecord, observedFill, parent>>
    /\ received' = [received EXCEPT ![m] = @ \o Feed[feedPos[m] + 1]]

\* subscribeToOrderBook with the snapshot returning the records data.
SnapshotDelivers(m, data) ==
    /\ alive
    /\ subscription[m] = "snapshot"
    /\ Len(received[m]) + Len(data) <= MaxBook
    /\ subscription' = [subscription EXCEPT ![m] = "live"]
    /\ orderBooks' = [orderBooks EXCEPT ![m] = handleOrderBookUpdate(@, formattedOrders(data))]
    /\ UNCHANGED <<monitoringConfig, feedPos, exOrders, trades, nextId, loop, stops, sweep,
                   alive, sent, started,
                   now, lastPostAt, inbox, fillRecord, observedFill, parent>>
    /\ received' = [received EXCEPT ![m] = @ \o formattedOrders(data)]

\* The channel callback handed the batch orders.
Deliver(m, orders) ==
    /\ alive
    /\ subscription[m] = "live"
    /\ Len(received[m]) + Len(orders) <= MaxBook
    /\ orderBooks' = [orderBooks EXCEPT ![m] = handleOrderBookUpdate(@, orders)]
    /\ UNCHANGED <<monitoringConfig, feedPos, subscription, exOrders, trades, nextId, loop,
                   stops, sweep, alive, sent, started,
                   now, lastPostAt, inbox, fillRecord, observedFill, parent>>
    /\ received' = [received EXCEPT ![m] = @ \o orders]

(***************************************************************************)
(* The exchange matching one of the operator's orders, fully or by half.   *)
(***************************************************************************)
Match(o, amt) ==
    /\ o \in exOrders
    /\ amt > 0 /\ amt <= o.totalBetSize - o.fillAmount
    /\ amt <= MaxMatched * TokenScale - trades[o.marketHash]
    /\ trades' = [trades EXCEPT ![o.marketHash] = @ + amt]
    /\ exOrders' =
         IF o.fillAmount + amt = o.totalBetSize
         THEN exOrders \ {o}
         ELSE (exOrders \ {o}) \cup {[o EXCEPT !.fillAmount = @ + amt]}
    /\ UNCHANGED <<monitoringConfig, orderBooks, feedPos, subscription, nextId, loop, stops,
                   sweep, alive, sent, started,
                   now, lastPostAt, inbox, received, observedFill, parent>>
    /\ fillRecord' = [h \in DOMAIN fillRecord \cup {o.orderHash} |->
                        IF h = o.orderHash
                        THEN [marketHash |-> o.marketHash, matched |-> o.fillAmount + amt]
                        ELSE fillRecord[h]]

MatchAmounts(o) == {o.totalBetSize - o.fillAmount}

\* A match of what is left of the order, or of half of an order not yet matched.
PartAmounts(o) ==
    {o.totalBetSize - o.fillAmount} \cup (IF o.fillAmount = 0 THEN {o.totalBetSize \div 2} ELSE {})

(***************************************************************************)
(* monitoringLoop and processMarket, one action per resumption.            *)
(***************************************************************************)
\* The timer of the sleep fires: the next iteration of while (true) begins.
TimerFires ==
    /\ alive
    /\ loop.pc = "sleep"
    /\ loop' = LoopNext(monitoringConfig, 0, {}, {})
    /\ UNCHANGED <<monitoringConfig, orderBooks, feedPos, subscription, exOrders, trades,
                   nextId, stops, sweep, alive, sent, started, lastPostAt, inbox, received, fillRecord, observedFill, parent>>

\* The next iteration, where the clock is not followed.
Tick == TimerFires /\ UNCHANGED now

\* getFilledVolumeSinceStart resolves (any failure yields 0); processMarket steps 1-3
\* run up to the next await.
FilledVolume(ok) ==
    /\ alive
    /\ loop.pc = "fill"
    /\ LET m == loop.m
           cfg == loop.cfg
           totalFilled == getFilledVolumeSinceStart(ok, trades[m])
           remainingNeeded == cfg.maxFill * TokenScale - totalFilled
           taker == bestTakerOdds(orderBooks[m], cfg.outcome = 1, cfg.minOrderSize)
           vig == getVigFromOrderBook(orderBooks[m], cfg.minOrderSize)
       IN  IF IsComplete(remainingNeeded)
           THEN /\ DeleteMarket(m)
                /\ loop' = Return(MapDelete(monitoringConfig, m),
                                  LoopAfterDelete(monitoringConfig, m, loop))
           ELSE /\ UNCHANGED <<monitoringConfig, sweep>>
                /\ loop' =
                     IF VigTooHigh(vig, cfg.maxVig)
                     THEN IF Len(orderBooks[m]) = 0
                          THEN Return(monitoringConfig, loop)
                          ELSE [loop EXCEPT !.pc = "vigFetch", !.attempt = 0,
                                            !.remainingNeeded = remainingNeeded,
                                            !.bestTakerOdds = taker]
                     ELSE [loop EXCEPT !.pc = "fetch", !.attempt = 0,
                                       !.remainingNeeded = remainingNeeded,
                                       !.bestTakerOdds = taker]
    /\ observedFill' = [observedFill EXCEPT ![loop.m] = getFilledVolumeSinceStart(ok, trades[loop.m])]
    /\ UNCHANGED <<orderBooks, feedPos, subscription, exOrders, trades, nextId, stops,
                   alive, sent, started,
                   now, lastPostAt, inbox, received, fillRecord, parent>>

\* processMarket after fetchActiveOrders returned activeOrders, in the high-vig branch.
AfterVigFetch(l, activeOrders) ==
    IF cancelSendsRequest(HashesOf(activeOrders))
    THEN [l EXCEPT !.pc = "vigCancel", !.attempt = 0, !.orderHashes = HashesOf(activeOrders)]
    ELSE Return(monitoringConfig, l)

\* processMarket after fetchActiveOrders returned activeOrders, steps 4 and 5.
AfterFetch(l, activeOrders) ==
    IF activeOrders = {}
    THEN postOrderForPosition(monitoringConfig, orderBooks[l.m], l,
                              sizeToPost(l.remainingNeeded, l.cfg.increments))
    ELSE IF l.bestTakerOdds <= 0 \/ l.bestTakerOdds >= PriceScale
         THEN Return(monitoringConfig, l)
         ELSE IF needsRepost(activeOrders, LadderedOdds(l.bestTakerOdds, l.cfg.edge))
              THEN [l EXCEPT !.pc = "cancel", !.attempt = 0, !.orderHashes = HashesOf(activeOrders)]
              ELSE Return(monitoringConfig, l)

\* fetchActiveOrders sleeping after every failed attempt, the last one too.
retryWaitsAlways(attempt, maxRetries) == TRUE

\* fetchActiveOrders' catch, after attempt++: the 2-second wait is made only when
\* another attempt follows.
retryWaits(attempt, maxRetries) == attempt < maxRetries

\* fetchActiveOrders inside processMarket: one attempt's outcome.
\*   "ok": the response carries the active orders; "fail": error, timeout or bad status,
\*   retried until MaxRetries attempts were made, then [] is returned;
\*   "malformed": data.data is not an array, and processMarket throws on using it.
\* loop.attempt is the number of failed attempts so far, loop.waits the number of
\* 2-second waits the call has made.
LoopFetch(outcome) ==
    /\ alive
    /\ loop.pc \in {"vigFetch", "fetch"}
    /\ LET After(l, a) == IF loop.pc = "vigFetch" THEN AfterVigFetch(l, a) ELSE AfterFetch(l, a)
       IN  loop' =
             CASE outcome = "ok" -> After(loop, ActiveOrders(exOrders, loop.m))
               [] outcome = "malformed" -> Caught(monitoringConfig, loop)
               [] OTHER ->
                    LET attempt == loop.attempt + 1
                        l == [loop EXCEPT !.waits = IF retryWaits(attempt, MaxRetries)
                                                    THEN @ + 1 ELSE @]
                    IN  IF attempt < MaxRetries
                        THEN [l EXCEPT !.attempt = attempt]
                        ELSE After(l, {})
    /\ UNCHANGED <<monitoringConfig, orderBooks, feedPos, subscription, exOrders, trades,
                   nextId, stops, sweep, alive, sent, started,
                   now, lastPostAt, inbox, received, fillRecord, observedFill, parent>>

\* cancelOrdersForMonitoring rethrowing the failure of its request.
cancelThrowsOnFailure(ok) == ~ok

\* cancelOrdersForMonitoring's try/catch around its one request: a bad status, a
\* timeout or a network error is logged and the call returns; nothing is thrown.
cancelThrows(ok) == FALSE

\* cancelOrdersForMonitoring inside processMarket resolves: the request took effect
\* (ok) or failed and the failure was swallowed.  After a repricing cancel the
\* replacement is sized and posted, or the position is removed.
LoopCancel(ok) ==
    /\ loop.pc \in {"vigCancel", "cancel"}
    /\ exOrders' = IF ok THEN Cancelled(exOrders, loop.orderHashes) ELSE exOrders
    /\ IF ~alive
       THEN /\ loop' = [loop EXCEPT !.pc = "dead"]
            /\ UNCHANGED <<monitoringConfig, sweep>>
       ELSE IF cancelThrows(ok)
       THEN /\ loop' = Caught(monitoringConfig, loop)
            /\ UNCHANGED <<monitoringConfig, sweep>>
       ELSE IF loop.pc = "vigCancel"
       THEN /\ loop' = Return(monitoringConfig, loop)
            /\ UNCHANGED <<monitoringConfig, sweep>>
       ELSE LET size == sizeToPost(loop.remainingNeeded, loop.cfg.increments)
            IN  IF TooSmallToRepost(size)
                THEN /\ DeleteMarket(loop.m)
                     /\ loop' = Return(MapDelete(monitoringConfig, loop.m),
                                       LoopAfterDelete(monitoringConfig, loop.m, loop))
                ELSE /\ UNCHANGED <<monitoringConfig, sweep>>
                     /\ loop' = postOrderForPosition(monitoringConfig, orderBooks[loop.m], loop, size)
    /\ UNCHANGED <<orderBooks, feedPos, subscription, trades, nextId, stops, alive, sent,
                   started,
                   now, lastPostAt, inbox, received, fillRecord, observedFill, parent>>

\* wallet.signMessage resolves; postOrderForPosition sends POST /orders/new.
Signed ==
    /\ alive
    /\ loop.pc = "sign"
    /\ loop' = [loop EXCEPT !.pc = "post"]
    /\ UNCHANGED <<monitoringConfig, orderBooks, feedPos, subscription, exOrders, trades,
                   nextId, stops, sweep, alive, sent, started,
                   now, lastPostAt, inbox, received, fillRecord, observedFill, parent>>

\* new Wallet(PRIVATE_KEY) or wallet.signMessage throws (the key is missing or not a
\* key): the outer catch logs the error and postOrderForPosition returns null.
SignThrows ==
    /\ alive
    /\ loop.pc = "sign"
    /\ loop' = Returned(monitoringConfig, loop, Null)
    /\ UNCHANGED <<monitoringConfig, orderBooks, feedPos, subscription, exOrders, trades,
                   nextId, stops, sweep, alive, sent, started,
                   now, lastPostAt, inbox, received, fillRecord, observedFill, parent>>

\* postOrderForPosition returning the hash whatever the response.
postResultAlwaysHash(created, orderHash) == Hash(orderHash)

\* The value postOrderForPosition returns once POST /orders/new is answered: the
\* order's hash after a success response, null after anything else.
postResult(created, orderHash) == IF created THEN Hash(orderHash) ELSE Null

\* The exchange answers POST /orders/new: the order is created, or the request fails.
\* The exchange creates at most maxOrders orders in a run.
PostResponseUpTo(created, maxOrders) ==
    /\ loop.pc = "post"
    /\ IF created
       THEN /\ nextId < maxOrders
            /\ nextId' = nextId + 1
            /\ exOrders' = exOrders \cup
                 {[orderHash |-> nextId + 1, marketHash |-> loop.m,
                   totalBetSize |-> loop.amount, fillAmount |-> 0,
                   percentageOdds |-> loop.percentageOdds]}
            /\ lastPostAt' = [lastPostAt EXCEPT ![loop.m] = now]
       ELSE UNCHANGED <<nextId, exOrders, lastPostAt>>
    /\ loop' = IF alive
               THEN Returned(monitoringConfig, loop, postResult(created, nextId + 1))
               ELSE [loop EXCEPT !.pc = "dead"]
    /\ UNCHANGED <<monitoringConfig, orderBooks, feedPos, subscription, trades, stops,
                   sweep, alive, sent, started, now, inbox, received, fillRecord, observedFill, parent>>

PostResponse(created) == PostResponseUpTo(created, MaxOrders)

(***************************************************************************)
(* action === "stop".  One handler per market is followed at a time.       *)
(***************************************************************************)
\* The message arrives.  An unregistered market is only logged.  The log line of a
\* registered one reads pos.marketDetails.teamOneName, which throws when the config
\* has no marketDetails: the handler's promise rejects before anything is done.
StopMessage(m) ==
    /\ alive
    /\ stops[m].pc = "idle"
    /\ stops' =
         IF MapHas(monitoringConfig, m) /\ MapGet(monitoringConfig, m).marketDetails
         THEN [stops EXCEPT ![m] = [pc |-> "fetch", attempt |-> 0, orderHashes |-> {}]]
         ELSE stops
    /\ UNCHANGED <<monitoringConfig, orderBooks, feedPos, subscription, exOrders, trades,
                   nextId, loop, sweep, alive, sent, started,
                   now, lastPostAt, inbox, received, fillRecord, observedFill, parent>>

\* The handler's last statement: monitoringConfig.delete(marketHash).
StopDeletes(m) ==
    /\ DeleteMarket(m)
    /\ loop' = LoopAfterDelete(monitoringConfig, m, loop)
    /\ stops' = [stops EXCEPT ![m] = StopIdle]

\* fetchActiveOrders inside the handler: one attempt's outcome.  With no order to
\* cancel the handler deletes the market at once.
StopFetch(m, ok) ==
    /\ alive
    /\ stops[m].pc = "fetch"
    /\ LET done == ok \/ stops[m].attempt + 1 >= MaxRetries
           orderHashes == IF ok THEN HashesOf(ActiveOrders(exOrders, m)) ELSE {}
       IN  IF ~done
           THEN /\ stops' = [stops EXCEPT ![m].attempt = @ + 1]
                /\ UNCHANGED <<monitoringConfig, sweep, loop>>
           ELSE IF orderHashes # {}
           THEN /\ stops' = [stops EXCEPT ![m] = [pc |-> "cancel", attempt |-> 0, orderHashes |-> orderHashes]]
                /\ UNCHANGED <<monitoringConfig, sweep, loop>>
           ELSE StopDeletes(m)
    /\ UNCHANGED <<orderBooks, feedPos, subscription, exOrders, trades, nextId, alive, sent,
                   started,
                   now, lastPostAt, inbox, received, fillRecord, observedFill, parent>>

\* cancelOrdersForMonitoring inside the handler resolves.
StopCancel(m, ok) ==
    /\ stops[m].pc = "cancel"
    /\ exOrders' = IF ok THEN Cancelled(exOrders, stops[m].orderHashes) ELSE exOrders
    /\ IF alive
       THEN StopDeletes(m)
       ELSE /\ stops' = [stops EXCEPT ![m] = StopIdle]
            /\ UNCHANGED <<monitoringConfig, sweep, loop>>
    /\ UNCHANGED <<orderBooks, feedPos, subscription, trades, nextId, alive, sent, started,
                   now, lastPostAt, inbox, received, fillRecord, observedFill, parent>>

(***************************************************************************)
(* stopAllMarkets: action === "stopAll", SIGINT and SIGTERM.               *)
(***************************************************************************)
\* monitoringConfig.clear() and process.exit(0).
Exit ==
    /\ monitoringConfig' = << >>
    /\ alive' = FALSE
    /\ sweep' = SweepIdle

\* The for-of of the sweep: fetch for the next entry, or go on to the batch cancel.
SweepNext(idx, all) ==
    IF idx < Len(monitoringConfig)
    THEN /\ sweep' = SweepAt("fetch", idx + 1, monitoringConfig[idx + 1].key, all)
         /\ UNCHANGED <<monitoringConfig, alive>>
    ELSE IF all # {}
    THEN /\ sweep' = SweepAt("cancel", idx, None, all)
         /\ UNCHANGED <<monitoringConfig, alive>>
    ELSE Exit

\* stopAllMarkets is called and runs up to its first await, or to the exit.
stopAllMarkets ==
    /\ alive
    /\ sweep.pc = "idle"
    /\ SweepNext(0, {})
    /\ UNCHANGED <<orderBooks, feedPos, subscription, exOrders, trades, nextId, loop, stops,
                   sent, started,
                   now, lastPostAt, received, fillRecord, observedFill>>

\* action === "stopAll", whoever sent it.
StopAllMessage == stopAllMarkets /\ UNCHANGED <<inbox, parent>>

(***************************************************************************)
(* The CLI process leaving: main menu choice 4 of iceberg.js.              *)
(***************************************************************************)
\* mainMenu, case 4: stopAllPositions() sends { action: "stopAll" } to the monitoring
\* process if there is one; the CLI then exits on the monitoring process's "exit"
\* event, or at once when there is no monitoring process.
ExitMenu ==
    /\ parent.pc = "menu"
    /\ inbox' = IF parent.monitoringProcess THEN inbox \cup {"stopAll"} ELSE inbox
    /\ parent' = [parent EXCEPT !.pc = IF parent.monitoringProcess THEN "waitExit" ELSE "exited"]
    /\ UNCHANGED <<monitoringConfig, orderBooks, feedPos, subscription, exOrders, trades,
                   nextId, loop, stops, sweep, alive, sent, started, now, lastPostAt,
                   received, fillRecord, observedFill>>

\* The start the CLI sent from its menu arrives: the channel keeps the order of the
\* messages, so no start is handled after the CLI chose Exit.
MenuStart(m, config) == parent.pc = "menu" /\ Start(m, config)

\* process.on("message") with the stopAll the CLI sent.
ReceiveStopAll ==
    /\ "stopAll" \in inbox
    /\ inbox' = inbox \ {"stopAll"}
    /\ stopAllMarkets
    /\ UNCHANGED parent

\* monitoringProcess.on("exit") in the CLI: the handle is dropped, and the listener
\* the Exit choice added ends the CLI (whose own "exit" handler then finds no handle
\* to kill).
MonitoringProcessExit ==
    /\ ~alive
    /\ parent.monitoringProcess
    /\ parent' = [pc |-> IF parent.pc = "waitExit" THEN "exited" ELSE parent.pc,
                  monitoringProcess |-> FALSE]
    /\ UNCHANGED <<monitoringConfig, orderBooks, feedPos, subscription, exOrders, trades,
                   nextId, loop, stops, sweep, alive, sent, started, now, lastPostAt, inbox,
                   received, fillRecord, observedFill>>

SweepFetch(ok) ==
    /\ alive
    /\ sweep.pc = "fetch"
    /\ LET done == ok \/ sweep.attempt + 1 >= MaxRetries
           orderHashes == IF ok THEN HashesOf(ActiveOrders(exOrders, sweep.m)) ELSE {}
       IN  IF ~done
           THEN /\ sweep' = [sweep EXCEPT !.attempt = @ + 1]
                /\ UNCHANGED <<monitoringConfig, alive>>
           ELSE SweepNext(sweep.idx, sweep.allOrderHashes \cup orderHashes)
    /\ UNCHANGED <<orderBooks, feedPos, subscription, exOrders, trades, nextId, loop, stops,
                   sent, started,
                   now, lastPostAt, inbox, received, fillRecord, observedFill, parent>>

SweepCancel(ok) ==
    /\ alive
    /\ sweep.pc = "cancel"
    /\ exOrders' = IF ok THEN Cancelled(exOrders, sweep.allOrderHashes) ELSE exOrders
    /\ Exit
    /\ UNCHANGED <<orderBooks, feedPos, subscription, trades, nextId, loop, stops, sent,
                   started,
                   now, lastPostAt, inbox, received, fillRecord, observedFill, parent>>

(***************************************************************************)
(* Time, and the messages the handler has no branch for.                   *)
(***************************************************************************)
\* Time passes: a call, a message or a timer takes longer.
Elapse ==
    /\ now < ProcessStart + MaxElapsed
    /\ now' = now + 1
    /\ UNCHANGED <<monitoringConfig, orderBooks, feedPos, subscription, exOrders, trades,
                   nextId, loop, stops, sweep, alive, sent, started, lastPostAt, inbox, received, fillRecord, observedFill, parent>>

\* The next iteration, SleepTicks after the loop went to sleep at the earliest.
TickAfterSleep ==
    /\ now + SleepTicks <= ProcessStart + MaxElapsed
    /\ TimerFires
    /\ now' = now + SleepTicks

\* The parent's position manager sends { action: "forceRefreshAll" }.
SendForceRefreshAll ==
    /\ alive
    /\ "forceRefreshAll" \notin inbox
    /\ inbox' = inbox \cup {"forceRefreshAll"}
    /\ UNCHANGED <<monitoringConfig, orderBooks, feedPos, subscription, exOrders, trades,
                   nextId, loop, stops, sweep, alive, sent, started, now, lastPostAt,
                   received, fillRecord, observedFill, parent>>

\* process.on("message") with action "forceRefreshAll": the message is logged and
\* none of the handler's branches (start, stop, stopAll, update) is taken.
ReceiveForceRefreshAll ==
    /\ alive
    /\ "forceRefreshAll" \in inbox
    /\ inbox' = inbox \ {"forceRefreshAll"}
    /\ UNCHANGED <<monitoringConfig, orderBooks, feedPos, subscription, exOrders, trades,
                   nextId, loop, stops, sweep, alive, sent, started, now, lastPostAt,
                   received, fillRecord, observedFill, parent>>

(***************************************************************************)
(* The specification.                                                      *)
(***************************************************************************)
\* One market, with every input.
Next ==
    \/ \E config \in StartConfigs : Start("m1", config)
    \/ \E config \in UpdateConfigs : Update("m1", config)
    \/ \E ok \in BOOLEAN : SnapshotResponse("m1", ok)
    \/ PushUpdate("m1")
    \/ \E o \in exOrders : \E amt \in MatchAmounts(o) : Match(o, amt)
    \/ Tick
    \/ \E ok \in BOOLEAN : FilledVolume(ok)
    \/ \E outcome \in {"ok", "fail", "malformed"} : LoopFetch(outcome)
    \/ \E ok \in BOOLEAN : LoopCancel(ok)
    \/ Signed
    \/ \E created \in BOOLEAN : PostResponse(created)
    \/ StopMessage("m1")
    \/ \E ok \in BOOLEAN : StopFetch("m1", ok)
    \/ \E ok \in BOOLEAN : StopCancel("m1", ok)
    \/ StopAllMessage
    \/ \E ok \in BOOLEAN : SweepFetch(ok)
    \/ \E ok \in BOOLEAN : SweepCancel(ok)

Spec == Init /\ [][Next]_vars

\* Every market, each started with the first config; no 'update', 'stop' or 'stopAll'.
BasicConfig == Position(1, 20, 20, 2, 200, 100, TRUE)

NextAll ==
    \/ \E m \in Markets : Start(m, BasicConfig)
    \/ \E m \in Markets, ok \in BOOLEAN : SnapshotResponse(m, ok)
    \/ \E m \in Markets : PushUpdate(m)
    \/ \E o \in exOrders : \E amt \in MatchAmounts(o) : Match(o, amt)
    \/ Tick
    \/ \E ok \in BOOLEAN : FilledVolume(ok)
    \/ \E outcome \in {"ok", "fail", "malformed"} : LoopFetch(outcome)
    \/ \E ok \in BOOLEAN : LoopCancel(ok)
    \/ Signed
    \/ \E created \in BOOLEAN : PostResponse(created)

SpecAll == Init /\ [][NextAll]_vars

\* One market, with every input, and every call to the exchange succeeding.
NextOk ==
    \/ \E config \in StartConfigs : Start("m1", config)
    \/ \E config \in UpdateConfigs : Update("m1", config)
    \/ SnapshotResponse("m1", TRUE)
    \/ PushUpdate("m1")
    \/ \E o \in exOrders : \E amt \in MatchAmounts(o) : Match(o, amt)
    \/ Tick
    \/ \E ok \in BOOLEAN : FilledVolume(ok)
    \/ LoopFetch("ok")
    \/ LoopCancel(TRUE)
    \/ Signed
    \/ PostResponse(TRUE)
    \/ StopMessage("m1")
    \/ StopFetch("m1", TRUE)
    \/ StopCancel("m1", TRUE)
    \/ StopAllMessage
    \/ SweepFetch(TRUE)
    \/ SweepCancel(TRUE)

SpecOk == Init /\ [][NextOk]_vars

\* One market with the clock followed: every exchange call succeeds, the loop's sleep
\* takes SleepTicks and everything else as long as Elapse makes it.
ClockConfig == Position(1, 40, 20, 2, 1000, 100, TRUE)

ClockStartConfigs ==
    { ClockConfig,
      WithStartTime(ClockConfig, Num(0)),
      WithStartTime(ClockConfig, NotNumeric),
      WithStartTime(ClockConfig, Num(MsThreshold \div SecondsToMs)),
      WithStartTime(ClockConfig, Num(ProcessStart - 50)) }

NextClock ==
    \/ \E config \in ClockStartConfigs : Start("m1", config)
    \/ SnapshotResponse("m1", TRUE)
    \/ PushUpdate("m1")
    \/ \E o \in exOrders : \E amt \in MatchAmounts(o) : Match(o, amt)
    \/ TickAfterSleep
    \/ FilledVolume(TRUE)
    \/ LoopFetch("ok")
    \/ LoopCancel(TRUE)
    \/ Signed
    \/ PostResponse(TRUE)
    \/ Elapse
    \/ SendForceRefreshAll
    \/ ReceiveForceRefreshAll

SpecClock == Init /\ [][NextClock]_vars

\* The message handlers and the feed over every market, the loop asleep.
MsgUpdateConfigs ==
    { [maxVig |-> 50],
      [edge |-> 3, increments |-> 10],
      [maxFill |-> 30, currentFill |-> 0] }

NextMsg ==
    \/ \E m \in Markets : Start(m, BasicConfig)
    \/ \E m \in Markets, config \in MsgUpdateConfigs : Update(m, config)
    \/ \E m \in Markets, ok \in BOOLEAN : SnapshotResponse(m, ok)
    \/ \E m \in Markets : PushUpdate(m)

SpecMsg == Init /\ [][NextMsg]_vars

\* One market whose feed is arbitrary: the snapshot and every push batch carry any
\* of the records below, among them a price above one probability unit, entries
\* below the store's size threshold and entries below a position's own minOrderSize.
\* Every call to the exchange succeeds.
RawBatches ==
    { << Raw("b1", "ACTIVE", "x", 250 * TokenScale, 6000, TRUE) >>,
      << Raw("b2", "ACTIVE", "x", 150 * TokenScale, 4000, FALSE) >>,
      << Raw("b3", "ACTIVE", "y", 150 * TokenScale, 15000, FALSE) >>,
      << Raw("b4", "ACTIVE", "y", 150 * TokenScale, 700, TRUE) >>,
      << Raw("b5", "ACTIVE", "y", 150 * TokenScale, 9300, FALSE) >>,
      << Raw("b6", "ACTIVE", "x", 50 * TokenScale, 9000, FALSE) >> }

BookConfigs ==
    { Position(1, 20, 20, 2, 200, 100, TRUE),
      Position(2, 20, 20, 2, 200, 200, TRUE) }

NextBook ==
    \/ \E config \in BookConfigs : Start("m1", config)
    \/ SnapshotResponse("m1", FALSE)
    \/ \E data \in RawBatches : SnapshotDelivers("m1", data)
    \/ \E orders \in RawBatches : Deliver("m1", orders)
    \/ \E o \in exOrders : \E amt \in MatchAmounts(o) : Match(o, amt)
    \/ Tick
    \/ FilledVolume(TRUE)
    \/ LoopFetch("ok")
    \/ LoopCancel(TRUE)
    \/ Signed
    \/ PostResponse(TRUE)

SpecBook == Init /\ [][NextBook]_vars

\* The fill scenario: one position of maxFill 1000, on either outcome, posted in
\* increments of 250 on a market whose store holds the snapshot, if it arrived, and
\* does not change; the exchange answers
\* every query, creates the order posted or rejects it, and fills whole orders, at
\* any moment.
FillConfig == Position(1, 1000, 250, 2, 1000, 100, TRUE)
FillConfigs == {FillConfig, [FillConfig EXCEPT !.outcome = 2]}

NextFill ==
    \/ \E config \in FillConfigs : Start("m1", config)
    \/ \E ok \in BOOLEAN : SnapshotResponse("m1", ok)
    \/ \E o \in exOrders : \E amt \in MatchAmounts(o) : Match(o, amt)
    \/ Tick
    \/ FilledVolume(TRUE)
    \/ LoopFetch("ok")
    \/ Signed
    \/ \E created \in BOOLEAN : PostResponseUpTo(created, MaxFillOrders)

SpecFill == Init /\ [][NextFill]_vars

\* The store under an arbitrary feed for market m1 and the push feed for m2, with
\* 'stop' and 'stopAll'; the loop asleep.  The records are one just below the store's own threshold of 100
\* units, one of another maker that a later record reports inactive, one of the
\* operator and one of exactly 150 units; the positions' thresholds are the prompt's
\* default of 99 and 150.
StoreBatches ==
    { << Raw("s1", "ACTIVE", "x", 99500000, 6000, FALSE) >>,
      << Raw("s2", "ACTIVE", "x", 200 * TokenScale, 4000, FALSE) >>,
      << Raw("s2", "INACTIVE", "x", 200 * TokenScale, 4000, FALSE) >>,
      << Raw("s4", "ACTIVE", MAKER_ADDRESS, 200 * TokenScale, 9000, TRUE) >>,
      << Raw("s5", "ACTIVE", "y", 150 * TokenScale, 5000, TRUE) >> }

StoreConfigs ==
    { Position(1, 20, 20, 2, 200, 99, TRUE),
      Position(2, 20, 20, 2, 200, 150, TRUE) }

NextStore ==
    \/ \E config \in StoreConfigs : Start("m1", config)
    \/ Start("m2", BasicConfig)
    \/ \E m \in Markets : SnapshotResponse(m, FALSE)
    \/ \E data \in StoreBatches : SnapshotDelivers("m1", data)
    \/ \E orders \in StoreBatches : Deliver("m1", orders)
    \/ PushUpdate("m2")
    \/ \E m \in Markets : StopMessage(m)
    \/ \E m \in Markets : StopFetch(m, TRUE)
    \/ StopAllMessage
    \/ SweepFetch(TRUE)

SpecStore == Init /\ [][NextStore]_vars

\* One market whose orders are matched in parts, and repriced by the feed: every
\* exchange call succeeds but the trades query, which may fail.
LedgerConfig == Position(1, 40, 20, 2, 1000, 100, TRUE)

NextLedger ==
    \/ Start("m1", LedgerConfig)
    \/ SnapshotResponse("m1", TRUE)
    \/ PushUpdate("m1")
    \/ \E o \in exOrders : \E amt \in PartAmounts(o) : Match(o, amt)
    \/ Tick
    \/ \E ok \in BOOLEAN : FilledVolume(ok)
    \/ LoopFetch("ok")
    \/ LoopCancel(TRUE)
    \/ Signed
    \/ PostResponse(TRUE)

SpecLedger == Init /\ [][NextLedger]_vars

\* One market and the CLI's Exit: every exchange call succeeds.
NextExit ==
    \/ MenuStart("m1", BasicConfig)
    \/ SnapshotResponse("m1", TRUE)
    \/ PushUpdate("m1")
    \/ \E o \in exOrders : \E amt \in MatchAmounts(o) : Match(o, amt)
    \/ Tick
    \/ FilledVolume(TRUE)
    \/ LoopFetch("ok")
    \/ LoopCancel(TRUE)
    \/ Signed
    \/ PostResponse(TRUE)
    \/ ExitMenu
    \/ ReceiveStopAll
    \/ SweepFetch(TRUE)
    \/ SweepCancel(TRUE)
    \/ MonitoringProcessExit

SpecExit == Init /\ [][NextExit]_vars

\* Both markets and the loop with every call succeeding or failing, and stopAll or a
\* termination signal.  The timer fires and every remote call of the loop ends (by a
\* response, an error or the 5-second timeout).
NextLive ==
    \/ \E m \in Markets : Start(m, BasicConfig)
    \/ \E m \in Markets : SnapshotResponse(m, TRUE)
    \/ \E o \in exOrders : \E amt \in MatchAmounts(o) : Match(o, amt)
    \/ Tick
    \/ \E ok \in BOOLEAN : FilledVolume(ok)
    \/ \E outcome \in {"ok", "fail", "malformed"} : LoopFetch(outcome)
    \/ \E ok \in BOOLEAN : LoopCancel(ok)
    \/ Signed
    \/ \E created \in BOOLEAN : PostResponse(created)
    \/ StopAllMessage
    \/ SweepFetch(TRUE)
    \/ SweepCancel(TRUE)

SpecLive ==
    /\ Init
    /\ [][NextLive]_vars
    /\ WF_vars(Tick)
    /\ WF_vars(\E ok \in BOOLEAN : FilledVolume(ok))
    /\ WF_vars(\E outcome \in {"ok", "fail", "malformed"} : LoopFetch(outcome))
    /\ WF_vars(\E ok \in BOOLEAN : LoopCancel(ok))
    /\ WF_vars(Signed)
    /\ WF_vars(\E created \in BOOLEAN : PostResponse(created))

\* The store of market m1 alone under the arbitrary feed: the snapshot fails or
\* carries any batch, and the channel hands any batch any number of times.
NextFeed ==
    \/ \E config \in BookConfigs : Start("m1", config)
    \/ SnapshotResponse("m1", FALSE)
    \/ \E data \in RawBatches : SnapshotDelivers("m1", data)
    \/ \E orders \in RawBatches : Deliver("m1", orders)

SpecFeed == Init /\ [][NextFeed]_vars

\* Both markets at rest: the store of a market is handed its snapshot and nothing
\* after it, no config is updated and nothing is matched, so from the posting of a
\* market's order on, its order book, configuration and fill stay as they are.  The
\* snapshot's vig (0.07) is within the config's maxVig.
NextQuiet ==
    \/ \E m \in Markets : Start(m, LedgerConfig)
    \/ \E m \in Markets : SnapshotResponse(m, TRUE)
    \/ Tick
    \/ \E ok \in BOOLEAN : FilledVolume(ok)
    \/ \E outcome \in {"ok", "fail"} : LoopFetch(outcome)
    \/ Signed
    \/ \E created \in BOOLEAN : PostResponse(created)

SpecQuiet == Init /\ [][NextQuiet]_vars

\* One market and its loop, where only fetchActiveOrders fails; every request of
\* fetchActiveOrders ends, by a response, an error or the 5-second timeout.
NextFetch ==
    \/ Start("m1", BasicConfig)
    \/ \E config \in UpdateConfigs : Update("m1", config)
    \/ SnapshotResponse("m1", TRUE)
    \/ PushUpdate("m1")
    \/ Tick
    \/ FilledVolume(TRUE)
    \/ \E outcome \in {"ok", "fail", "malformed"} : LoopFetch(outcome)
    \/ LoopCancel(TRUE)
    \/ Signed
    \/ PostResponse(TRUE)

SpecFetch ==
    /\ Init
    /\ [][NextFetch]_vars
    /\ WF_vars(\E outcome \in {"ok", "fail", "malformed"} : LoopFetch(outcome))

\* One market, its loop, its stop handler and 'update': every call of the loop succeeds
\* or fails.
NextLoop ==
    \/ \E config \in StartConfigs : Start("m1", config)
    \/ \E config \in UpdateConfigs : Update("m1", config)
    \/ \E ok \in BOOLEAN : SnapshotResponse("m1", ok)
    \/ PushUpdate("m1")
    \/ \E o \in exOrders : \E amt \in MatchAmounts(o) : Match(o, amt)
    \/ Tick
    \/ \E ok \in BOOLEAN : FilledVolume(ok)
    \/ \E outcome \in {"ok", "fail", "malformed"} : LoopFetch(outcome)
    \/ \E ok \in BOOLEAN : LoopCancel(ok)
    \/ Signed
    \/ SignThrows
    \/ \E created \in BOOLEAN : PostResponse(created)
    \/ StopMessage("m1")
    \/ StopFetch("m1", TRUE)
    \/ StopCancel("m1", TRUE)

SpecLoop == Init /\ [][NextLoop]_vars

\* One market with an arbitrary feed and positions of every kind of edge (2, 100 and
\* -150 percent), stopped at any time: every exchange call succeeds or fails.
PriceConfigs ==
    { Position(1, 20, 20, 2, 200, 100, TRUE),
      Position(1, 20, 20, 100, 200, 100, TRUE),
      Position(2, 20, 20, -150, 200, 100, TRUE) }

NextPrice ==
    \/ \E config \in PriceConfigs : Start("m1", config)
    \/ SnapshotResponse("m1", FALSE)
    \/ \E data \in RawBatches : SnapshotDelivers("m1", data)
    \/ \E orders \in RawBatches : Deliver("m1", orders)
    \/ Tick
    \/ FilledVolume(TRUE)
    \/ \E outcome \in {"ok", "fail"} : LoopFetch(outcome)
    \/ \E ok \in BOOLEAN : LoopCancel(ok)
    \/ Signed
    \/ \E created \in BOOLEAN : PostResponse(created)
    \/ StopMessage("m1")
    \/ StopFetch("m1", TRUE)
    \/ StopCancel("m1", TRUE)

SpecPrice == Init /\ [][NextPrice]_vars

(***************************************************************************)
(* Properties.                                                             *)
(***************************************************************************)
RECURSIVE SumOpen(_)
\* The stake still resting in a set of exchange orders (raw units).
SumOpen(orders) ==
    IF orders = {} THEN 0
    ELSE LET o == CHOOSE x \in orders : TRUE
         IN  (o.totalBetSize - o.fillAmount) + SumOpen(orders \ {o})

OrdersOf(m) == {o \in exOrders : o.marketHash = m}

\* The fill processMarket computed in the tick it is in (raw units).
TotalFilled(l) == l.cfg.maxFill * TokenScale - l.remainingNeeded

\* The completion rule of the specification: fill / maxFill >= 0.99 or remaining need < 10.
SpecComplete(maxFill, totalFilled) ==
    \/ totalFilled >= 99 * maxFill * (TokenScale \div 100)
    \/ maxFill * TokenScale - totalFilled < MinRemaining * TokenScale

\* The tolerance band of the completion rule: 1% of maxFill, or 10 units (raw units).
ToleranceBand(maxFill) ==
    LET pct == maxFill * (TokenScale \div 100)
    IN  IF pct > MinRemaining * TokenScale THEN pct ELSE MinRemaining * TokenScale

InProcessMarket == loop.pc \in {"fill", "vigFetch", "vigCancel", "fetch", "cancel", "sign", "post"}

\* The step in which processMarket resumes with the filled volume.
FilledVolumeStep == loop.pc = "fill" /\ (loop'.pc # "fill" \/ loop'.m # loop.m)

\* C1: no order is submitted (POST /orders/new sent, which happens when the signature
\* resolves) for a market that is absent from the registry at that moment.
C1_SubmitOnlyRegistered ==
    [][(loop.pc = "sign" /\ loop'.pc = "post") => MapHas(monitoringConfig, loop.m)]_vars

C3_FillWithinTolerance ==
    \A i \in 1..Len(monitoringConfig) :
        trades[monitoringConfig[i].key]
            <= monitoringConfig[i].val.maxFill * TokenScale + ToleranceBand(monitoringConfig[i].val.maxFill)

\* C4: the stake of the operator resting on a registered market is at most the
\* position's increment.
C4_RestingAtMostIncrement ==
    \A i \in 1..Len(monitoringConfig) :
        SumOpen(OrdersOf(monitoringConfig[i].key)) <= monitoringConfig[i].val.increments * TokenScale

\* C5: processMarket never goes past its completion test in a tick whose computed
\* fill meets the completion rule (fill / maxFill >= 0.99 or remaining need < 10).
C5_CompleteAtTolerance ==
    loop.pc \in {"vigFetch", "vigCancel", "fetch", "cancel", "sign", "post"}
        => ~SpecComplete(loop.cfg.maxFill, TotalFilled(loop))

\* C6: when a 'stop' handler finishes, its market is absent from the registry and no
\* order of the operator is active on it (checked where every exchange call succeeds).
C6_StopLeavesNothingActive ==
    [][\A m \in Markets :
         (alive' /\ stops[m].pc # "idle" /\ stops'[m].pc = "idle")
            => /\ ~MapHas(monitoringConfig', m)
               /\ \A o \in exOrders' : o.marketHash # m]_vars

\* C7: when the sweep of stopAllMarkets exits the process, no order of the operator is
\* active on a market the sweep went over (checked where every exchange call succeeds).
C7_SweepLeavesNothingActive ==
    [][(alive /\ ~alive')
         => \A o \in exOrders' :
              \A i \in 1..sweep.idx :
                 i <= Len(monitoringConfig) => o.marketHash # monitoringConfig[i].key]_vars

\* C8: a failure in processMarket never ends the loop, and the iteration it happens
\* in still processes every registered market before the loop sleeps.
C8_FailureIsolated ==
    [][/\ loop'.pc # "dead"
       /\ (loop.pc # "sleep" /\ loop'.pc = "sleep")
            => MapKeys(monitoringConfig') \subseteq loop'.visited]_vars

\* C8 witness: processMarket threw for one market and the same iteration is now
\* processing another one.
C8_Witness ==
    /\ InProcessMarket
    /\ loop.caught # {}
    /\ loop.m \notin loop.caught

\* C9: the Scheduler removes a market after a repricing cancel only when the
\* position is complete (fill / maxFill >= 0.99 or remaining need < 10).
C9_RemovedOnlyWhenComplete ==
    [][( /\ loop.pc = "cancel" /\ loop'.pc # "cancel" /\ alive'
         /\ MapHas(monitoringConfig, loop.m) /\ ~MapHas(monitoringConfig', loop.m) )
         => SpecComplete(loop.cfg.maxFill, TotalFilled(loop))]_vars

\* C10: every tick of a market hands the parent a status message: markFilled when the
\* tick removes the market as complete, updateFill otherwise.
C10_StatusMessageEveryTick ==
    [][FilledVolumeStep
         => /\ Len(sent') = Len(sent) + 1
            /\ sent'[Len(sent')].marketHash = loop.m
            /\ sent'[Len(sent')].action =
                 IF MapHas(monitoringConfig, loop.m) /\ ~MapHas(monitoringConfig', loop.m)
                 THEN "markFilled" ELSE "updateFill"]_vars

\* The per-market cooldown between order submissions: 5 s.
CooldownTicks == 10

\* C11: two orders of the operator created on one market are at least the cooldown
\* apart.
C11_PostsCooldownApart ==
    [][\A m \in Markets :
         (lastPostAt[m] # 0 /\ lastPostAt'[m] # lastPostAt[m])
            => lastPostAt'[m] - lastPostAt[m] >= CooldownTicks]_vars

\* C12: a 'start' registers the position under its market with a startTime in
\* milliseconds (a number given in seconds times 1000, one given in milliseconds
\* unchanged, the current time for a missing or non-numeric one) and every other field
\* as given, and begins the subscription.
C12_StartRegistersMilliseconds ==
    [][\A config \in ClockStartConfigs :
         Start("m1", config) =>
            LET given == StartTimeOf(config)
                pos == MapGet(monitoringConfig', "m1")
            IN  /\ MapHas(monitoringConfig', "m1")
                /\ \A f \in DOMAIN config \ {"startTime"} : pos[f] = config[f]
                /\ pos.startTime >= MsThreshold
                /\ (given.type = "number" /\ given.n >= MsThreshold) => pos.startTime = given.n
                /\ (given.type = "number" /\ given.n > 0 /\ given.n < MsThreshold)
                      => pos.startTime = given.n * 1000
                /\ given.type # "number" => pos.startTime = now
                /\ subscription'["m1"] # "none"]_vars

\* C12 witness: a position registered from a startTime given in seconds.
C12_Witness ==
    /\ MapHas(monitoringConfig, "m1")
    /\ MapGet(monitoringConfig, "m1").startTime = MsThreshold
    /\ subscription["m1"] # "none"

\* C13: an 'update' for a registered market replaces exactly the fields of the partial
\* config in that market's position and leaves its other fields, the positions of the
\* other markets, the registry's order, the order-book store and the subscriptions as
\* they were; an 'update' for an unregistered market leaves the registry as it was.
C13_UpdateMergesOnlyGivenFields ==
    [][\A m \in Markets, config \in MsgUpdateConfigs :
         Update(m, config) =>
            /\ orderBooks' = orderBooks /\ feedPos' = feedPos /\ subscription' = subscription
            /\ IF ~MapHas(monitoringConfig, m)
               THEN monitoringConfig' = monitoringConfig
               ELSE /\ Len(monitoringConfig') = Len(monitoringConfig)
                    /\ \A i \in 1..Len(monitoringConfig) :
                          LET old == monitoringConfig[i]
                              new == monitoringConfig'[i]
                          IN  /\ new.key = old.key
                              /\ old.key # m => new.val = old.val
                              /\ old.key = m =>
                                    /\ DOMAIN new.val = DOMAIN old.val \cup DOMAIN config
                                    /\ \A f \in DOMAIN config : new.val[f] = config[f]
                                    /\ \A f \in DOMAIN old.val \ DOMAIN config :
                                          new.val[f] = old.val[f]]_vars

\* C13 witness: both markets are registered and one of them has been updated, the
\* other not.
C13_Witness ==
    /\ MapHas(monitoringConfig, "m1") /\ MapHas(monitoringConfig, "m2")
    /\ MapGet(monitoringConfig, "m2") = WithStartTime(BasicConfig, ProcessStart)
    /\ MapGet(monitoringConfig, "m1") =
          Merge(WithStartTime(BasicConfig, ProcessStart), [edge |-> 3, increments |-> 10])
    /\ subscription["m1"] = "live"

\* C14: when a forceRefreshAll message is received while the loop sleeps and a market
\* is registered, the evaluation of the registered markets begins at once.
C14_ForceRefreshEvaluates ==
    [][("forceRefreshAll" \in inbox /\ "forceRefreshAll" \notin inbox'
          /\ monitoringConfig # << >> /\ loop.pc = "sleep")
         => loop'.pc = "fill"]_vars


\* The probability of the latest opposing entry instead of the best one.
bestMakerProbOppositeOfLatest(orders, isUserBettingOutcomeOne, minOrderSize) ==
    PriceScale - bestTakerOddsOfLatest(orders, isUserBettingOutcomeOne, minOrderSize)

\* The best opposing maker probability getMarketDataFromOrderBook arrives at.
bestMakerProbOpposite(orders, isUserBettingOutcomeOne, minOrderSize) ==
    PriceScale - bestTakerOdds(orders, isUserBettingOutcomeOne, minOrderSize)

MinOrderSizes == {config.minOrderSize : config \in BookConfigs}

\* C15: after every sequence of snapshot and push batches, for either side and either
\* size threshold, the best opposing maker probability lies in [0, 1], and it is 0
\* when no qualifying entry exists on the opposite side.
C15_BestOpposingInUnitInterval ==
    \A m \in Markets : \A isUserBettingOutcomeOne \in BOOLEAN : \A minOrderSize \in MinOrderSizes :
        LET p == bestMakerProbOpposite(orderBooks[m], isUserBettingOutcomeOne, minOrderSize)
        IN  /\ 0 <= p /\ p <= PriceScale
            /\ (QualifyingOn(orderBooks[m], ~isUserBettingOutcomeOne, minOrderSize) = {}) => p = 0


\* The same store with the two sides' roles exchanged.
SwapSides(orders) ==
    [i \in 1..Len(orders) |-> [orders[i] EXCEPT !.isMakerBettingOutcomeOne = ~@]]

\* C16: for every store with a counted entry, the vig is (1 - p2) + (1 - p1) - 1 of
\* the two sides' best maker probabilities p1 and p2, it is the same with the sides'
\* roles exchanged, and it is exactly 0 when p1 + p2 = 1.
C16_VigExactlyZeroAtFairBook ==
    \A m \in Markets : \A minOrderSize \in MinOrderSizes :
        LET orders == orderBooks[m]
            p1 == bestMakerProb(orders, TRUE, minOrderSize)
            p2 == bestMakerProb(orders, FALSE, minOrderSize)
            vigD == vigNumber(orders, minOrderSize)
        IN  Considered(orders, minOrderSize) # {} =>
              /\ vigD = vigOfProbabilities(probability(p1), probability(p2))
              /\ vigNumber(SwapSides(orders), minOrderSize) = vigD
              /\ getVigFromOrderBook(orders, minOrderSize) = ((PriceScale - p2) + (PriceScale - p1)) - PriceScale
              /\ (p1 + p2 = PriceScale => vigD = DblZero)


\* C17 (as the code has it): the vig is 0 when no entry is counted on any side of the
\* market; when one side only has a counted entry, at best maker probability p, the
\* vig is 1 - p, the overround computed from that side, which is positive for p < 1.
C17_VigZeroOnlyWithoutAnyEntry ==
    \A m \in Markets : \A minOrderSize \in MinOrderSizes :
        LET orders == orderBooks[m]
            one == QualifyingOn(orders, TRUE, minOrderSize)
            two == QualifyingOn(orders, FALSE, minOrderSize)
            p1 == bestMakerProb(orders, TRUE, minOrderSize)
            p2 == bestMakerProb(orders, FALSE, minOrderSize)
            exact == getVigFromOrderBook(orders, minOrderSize)
            vigD == vigNumber(orders, minOrderSize)
        IN  /\ (one = {} /\ two = {}) => (exact = 0 /\ vigD = DblZero)
            /\ (one # {} /\ two = {}) =>
                  (exact = PriceScale - p1 /\ (p1 < PriceScale => DblPositive(vigD)))
            /\ (one = {} /\ two # {}) =>
                  (exact = PriceScale - p2 /\ (p2 < PriceScale => DblPositive(vigD)))

\* C17 witness: processMarket has found the vig of a store with counted entries on
\* one side only above maxVig and is fetching the active orders to cancel them.
C17_Witness ==
    /\ loop.pc = "vigFetch" /\ loop.m = "m1"
    /\ QualifyingOn(orderBooks["m1"], TRUE, loop.cfg.minOrderSize) # {}
    /\ QualifyingOn(orderBooks["m1"], FALSE, loop.cfg.minOrderSize) = {}
    /\ getVigFromOrderBook(orderBooks["m1"], loop.cfg.minOrderSize) = PriceScale - 6000

\* C17 (as stated): whenever a side has no counted entry the vig is 0.
C17_VigZeroWhenASideIsEmpty ==
    \A m \in Markets : \A minOrderSize \in MinOrderSizes :
        LET orders == orderBooks[m]
        IN  (QualifyingOn(orders, TRUE, minOrderSize) = {} \/ QualifyingOn(orders, FALSE, minOrderSize) = {})
              => /\ getVigFromOrderBook(orders, minOrderSize) = 0
                 /\ vigNumber(orders, minOrderSize) = DblZero


\* The prices of the ladder strictly between 0 and 1, and the edges of a position.
LadderPrices == {k * LadderStep : k \in 1..(PriceScale \div LadderStep - 1)}
Edges == 0..10

\* C18: the price postOrderForPosition goes on to sign is the largest multiple of the
\* ladder step that is not above the target bestTakerOdds * (1 - edge / 100);
\* laddering it again returns it; for edge 2 and bestTakerOdds 0.60 (target 0.588) it
\* is 0.5875.  The same holds of the laddering of every target a ladder price and an
\* edge of 0..10 give.
C18_PostedOddsFlooredToLadder ==
    [][(loop.pc # "sign" /\ loop'.pc = "sign") =>
          LET taker == bestTakerOdds(orderBooks[loop'.m], loop'.cfg.outcome = 1, loop'.cfg.minOrderSize)
              num == TargetNum(taker, loop'.cfg.edge)
              odds == loop'.percentageOdds
          IN  /\ odds = roundDownOddsToNearestStep(num, 100)
              /\ odds % LadderStep = 0
              /\ odds * 100 <= num
              /\ num < (odds + LadderStep) * 100
              /\ roundDownOddsToNearestStep(odds, 1) = odds
              /\ (loop'.cfg.edge = 2 /\ taker = 6000) => odds = 5875
              /\ \A t \in LadderPrices : \A e \in Edges :
                    LET r == roundDownOddsToNearestStep(TargetNum(t, e), 100)
                    IN  /\ r % LadderStep = 0
                        /\ r * 100 <= TargetNum(t, e)
                        /\ TargetNum(t, e) < (r + LadderStep) * 100
                        /\ roundDownOddsToNearestStep(r, 1) = r]_vars

\* C18 witness: with edge 2 and best taker odds 0.60 the order being signed is priced
\* at 0.5875.
C18_Witness ==
    /\ loop.pc = "sign" /\ loop.m = "m1"
    /\ loop.cfg.edge = 2
    /\ bestTakerOdds(orderBooks["m1"], loop.cfg.outcome = 1, loop.cfg.minOrderSize) = 6000
    /\ loop.percentageOdds = 5875


\* C20: when processMarket's high-vig branch calls cancelOrdersForMonitoring with an
\* empty list, no cancel request is put in flight, nothing of the exchange, the
\* registry or the store changes, and the iteration goes on as after a normal return.
C20_EmptyCancelDoesNothing ==
    [][(loop.pc = "vigFetch" /\ loop'.pc # "vigFetch"
          /\ HashesOf(ActiveOrders(exOrders, loop.m)) = {})
         => /\ loop'.pc # "vigCancel"
            /\ loop' = Return(monitoringConfig, loop)
            /\ UNCHANGED <<monitoringConfig, orderBooks, exOrders, trades, nextId, alive, sent>>]_vars

\* C20 witness: the high-vig branch is about to be answered that the operator has no
\* active order on the market.
C20_Witness ==
    /\ alive
    /\ loop.pc = "vigFetch" /\ loop.m = "m1"
    /\ ActiveOrders(exOrders, "m1") = {}
    /\ MapHas(monitoringConfig, "m1")
    /\ Len(orderBooks["m1"]) > 0


\* C19: in the fill scenario (maxFill 1000, increments 250, every order posted for 250
\* and filled whole) no more than four orders are posted, once the fourth fill has
\* brought the remaining need to 0 nothing further is signed, posted or left resting,
\* and the first evaluation after the fourth fill removes the position from the
\* registry and goes on to no fetch or post.
C19_FourFillsCompleteThePosition ==
    [][/\ \A o \in exOrders' : o.totalBetSize = FillConfig.increments * TokenScale
       /\ nextId' * FillConfig.increments <= FillConfig.maxFill
       /\ trades'["m1"] = FillConfig.maxFill * TokenScale =>
             (exOrders' = {} /\ loop'.pc \notin {"sign", "post"})
       /\ (loop.pc = "fill" /\ loop'.pc # "fill" /\ trades["m1"] = FillConfig.maxFill * TokenScale) =>
             (~MapHas(monitoringConfig', "m1") /\ loop'.pc \notin {"fetch", "vigFetch", "sign", "post"})]_vars


StoreMinOrderSizes == {config.minOrderSize : config \in StoreConfigs}

\* The records of other makers a market has been handed whose size is at least
\* minOrderSize base units.
ExternalAtLeast(records, minOrderSize) ==
    {i \in 1..Len(records) : /\ records[i].maker # MAKER_ADDRESS
                             /\ records[i].totalBetSize >= minOrderSize * TokenScale}

\* C21: the store holds no entry of the operator, and for every configured
\* minOrderSize the entries the price and vig scans count are those of the records of
\* other makers received with a size of at least minOrderSize, and no others.
C21_ScansUseExactlyEntriesAtThreshold ==
    \A m \in Markets :
        /\ \A i \in 1..Len(orderBooks[m]) : orderBooks[m][i].maker # MAKER_ADDRESS
        /\ \A minOrderSize \in StoreMinOrderSizes :
              {orderBooks[m][i].orderHash : i \in Considered(orderBooks[m], minOrderSize)}
                = {received[m][i].orderHash : i \in ExternalAtLeast(received[m], minOrderSize)}


\* The status of the record most recently received for orderHash.
LatestStatus(records, orderHash) ==
    LET of == {i \in 1..Len(records) : records[i].orderHash = orderHash}
    IN  records[Max(of, 0)].status

\* The entries of a store whose order is active by the latest record received for it.
CurrentlyActive(orders, records) ==
    SelectSeq(orders, LAMBDA o : LatestStatus(records, o.orderHash) = "ACTIVE")

\* C22: every entry the price and vig scans count belongs to an order whose most
\* recently received status is active, so that the best taker odds and the vig are
\* those of the currently active entries of other makers.
C22_InactiveEntriesNotCounted ==
    \A m \in Markets : \A minOrderSize \in StoreMinOrderSizes :
        LET active == CurrentlyActive(orderBooks[m], received[m])
        IN  /\ \A i \in Considered(orderBooks[m], minOrderSize) :
                  LatestStatus(received[m], orderBooks[m][i].orderHash) = "ACTIVE"
            /\ \A isUserBettingOutcomeOne \in BOOLEAN :
                  bestTakerOdds(orderBooks[m], isUserBettingOutcomeOne, minOrderSize)
                    = bestTakerOdds(active, isUserBettingOutcomeOne, minOrderSize)
            /\ getVigFromOrderBook(orderBooks[m], minOrderSize) = getVigFromOrderBook(active, minOrderSize)


IsPrefix(a, b) == Len(a) <= Len(b) /\ SubSeq(b, 1, Len(a)) = a

\* C23: every step leaves each market's stored entries in place and in order as a
\* prefix of its new list; a list grows only by the kept records of the batch its
\* market was handed in that step, normalized and in the batch's order, one market
\* at a time; no step of 'stop' or 'stopAll' changes a list.
C23_StoreAppendOnly ==
    [][/\ \A m \in Markets :
             LET batch == SubSeq(received'[m], Len(received[m]) + 1, Len(received'[m]))
                 added == SubSeq(orderBooks'[m], Len(orderBooks[m]) + 1, Len(orderBooks'[m]))
                 kept == SelectSeq(batch, LAMBDA r : /\ r.maker # MAKER_ADDRESS
                                                     /\ r.totalBetSize >= DefaultMinOrderSize * TokenScale)
             IN  /\ IsPrefix(orderBooks[m], orderBooks'[m])
                 /\ IsPrefix(received[m], received'[m])
                 /\ Len(added) = Len(kept)
                 /\ \A i \in 1..Len(kept) :
                       /\ added[i].orderHash = kept[i].orderHash
                       /\ added[i].status = kept[i].status
                       /\ added[i].maker = kept[i].maker
                       /\ added[i].percentageOdds = kept[i].percentageOdds
                       /\ added[i].isMakerBettingOutcomeOne = kept[i].isMakerBettingOutcomeOne
                       /\ added[i].totalBetSize = ToFixed4(kept[i].totalBetSize)
       /\ \A m1, m2 \in Markets :
             (orderBooks'[m1] # orderBooks[m1] /\ orderBooks'[m2] # orderBooks[m2]) => m1 = m2
       /\ (stops' # stops \/ sweep' # sweep \/ alive' # alive \/ monitoringConfig' # monitoringConfig)
             => orderBooks' = orderBooks]_vars

\* C23 witness: market m1's store holds entries of two batches received before a
\* third, dropped one; 'stop' has removed m1 from the registry; m2's store holds
\* entries too.
C23_Witness ==
    /\ Len(orderBooks["m1"]) = 2
    /\ Len(received["m1"]) = 3
    /\ received["m1"][3].orderHash = "s1"
    /\ "m1" \in started /\ ~MapHas(monitoringConfig, "m1")
    /\ stops["m1"].pc = "idle"
    /\ Len(orderBooks["m2"]) > 0


RECURSIVE SumMatched(_, _)
\* The sum over the orders hashes of the stake the exchange has matched on each.
SumMatched(record, hashes) ==
    IF hashes = {} THEN 0
    ELSE LET h == CHOOSE x \in hashes : TRUE
         IN  record[h].matched + SumMatched(record, hashes \ {h})

\* The running total matched on market m: the latest matched stake of every order of
\* m the exchange has matched, whether the order is still active or not.
aggregateFill(record, m) ==
    SumMatched(record, {h \in DOMAIN record : record[h].marketHash = m})

\* C24: the exchange's record of an order holds its latest matched stake (a second
\* match of the order replaces the figure, in the record and in the order), and the
\* filled figure a tick computes for its market is the sum of the latest figures of
\* all its orders, those no longer active included.
C24_FillIsSumOfLatestPerOrder ==
    [][/\ \A o \in exOrders' :
             /\ o.fillAmount > 0 => (o.orderHash \in DOMAIN fillRecord'
                                       /\ fillRecord'[o.orderHash].matched = o.fillAmount)
             /\ o.fillAmount = 0 => o.orderHash \notin DOMAIN fillRecord'
       /\ \A h \in DOMAIN fillRecord : h \in DOMAIN fillRecord'
       /\ (loop.pc = "fill" /\ loop'.pc \in {"fetch", "vigFetch"}) =>
             loop.cfg.maxFill * TokenScale - loop'.remainingNeeded = aggregateFill(fillRecord, loop.m)
       /\ (loop.pc = "fill" /\ MapHas(monitoringConfig, loop.m) /\ ~MapHas(monitoringConfig', loop.m)) =>
             IsComplete(loop.cfg.maxFill * TokenScale - aggregateFill(fillRecord, loop.m))]_vars



\* C25: the filled volume a tick computes for a market is never below the volume an
\* earlier tick of the market computed (the exchange never lowers what it matched).
C25_FilledVolumeNeverDrops ==
    [][\A m \in Markets : observedFill'[m] >= observedFill[m]]_vars


\* C26: once the CLI has left through Exit, the monitoring process has exited before
\* it (it was neither outlived nor killed during its sweep) and none of the
\* operator's orders is active on the exchange.
C26_ExitKillsAllOrders ==
    parent.pc = "exited" => (~alive /\ exOrders = {})


\* The step in which fetchActiveOrders of step 4 hands processMarket a list: not a
\* retry, and not the malformed answer processMarket throws on.
FetchReturnsList ==
    /\ loop.pc = "fetch"
    /\ loop'.pc # "fetch"
    /\ loop.m \notin loop'.caught

\* The order the tick goes on to sign and submit is of the size min(remaining need
\* of the tick, increment).
PostsOneIncrement ==
    /\ loop'.pc = "sign"
    /\ loop'.m = loop.m
    /\ loop'.amount = Min2(loop.remainingNeeded, loop.cfg.increments * TokenScale)

\* Step 2 removes the market when the remaining need is below 10, and posts nothing.
RemovedBelowTen ==
    (loop.pc = "fill" /\ (loop'.pc # "fill" \/ loop'.m # loop.m)
       /\ loop.cfg.maxFill * TokenScale - observedFill'[loop.m] < MinRemaining * TokenScale) =>
        /\ ~MapHas(monitoringConfig', loop.m)
        /\ loop'.pc \notin {"fetch", "vigFetch", "cancel", "sign", "post"}

\* C27 as stated: in a tick past the completion and vig tests whose operator has no
\* active order on the market, one order of size min(remaining need, increment) is
\* posted; with a remaining need below 10 the market is removed and nothing posted.
C27_PostsOneIncrementWhenNoneActive ==
    [][/\ (FetchReturnsList /\ ActiveOrders(exOrders, loop.m) = {}) => PostsOneIncrement
       /\ RemovedBelowTen]_vars

\* C27 amended: the order is posted when the market is still registered and the book
\* gives a taker price and a target strictly between 0 and 1; otherwise the tick
\* posts nothing.  A posted order is submitted once, unless its signing throws.
C27_PostsOneIncrementAtValidPrice ==
    [][/\ (FetchReturnsList /\ ActiveOrders(exOrders, loop.m) = {}) =>
             IF PostProceeds(monitoringConfig, orderBooks[loop.m], loop.m,
                             loop.cfg.outcome, loop.cfg.edge, loop.cfg.minOrderSize)
             THEN PostsOneIncrement
             ELSE loop'.pc \notin {"sign", "post", "cancel"}
       /\ (loop.pc = "sign" /\ loop'.pc # "sign") => loop'.pc = "post" \/ loop'.returned = Null
       /\ (loop.pc = "post" /\ loop'.pc # "post") => loop'.pc # "sign"
       /\ RemovedBelowTen]_vars

\* C27 witness: the exchange holds the order of 20 the tick posted with 20 needed and
\* an increment of 20, and no other.
C27_Witness ==
    /\ loop.pc \in {"fill", "sleep"}
    /\ \E o \in exOrders : /\ exOrders = {o}
                           /\ o.totalBetSize = 20 * TokenScale
                           /\ o.fillAmount = 0
                           /\ trades[o.marketHash] = 0


\* The desired laddered price of the tick: the best taker odds it read from the order
\* book at step 3, x (1 - edge/100), floored to the ladder.
DesiredLadderedOdds == LadderedOdds(loop.bestTakerOdds, loop.cfg.edge)

\* C28: in a tick that finds the operator with active orders on the market, orders all
\* at the desired laddered price are left alone and nothing is posted; if one differs,
\* all of them are sent for cancellation, and after the cancel a replacement of size
\* min(remaining need, increment) is posted when the remaining need is at least 10.
C28_RepriceCancelsAllAndRepostsOne ==
    [][/\ (loop.pc = "fetch" /\ loop'.pc # "fetch" /\ ActiveOrders(exOrders, loop.m) # {}) =>
             IF needsRepost(ActiveOrders(exOrders, loop.m), DesiredLadderedOdds)
             THEN /\ loop'.pc = "cancel"
                  /\ loop'.orderHashes = HashesOf(ActiveOrders(exOrders, loop.m))
             ELSE loop'.pc \notin {"cancel", "sign", "post"}
       /\ (loop.pc = "cancel" /\ loop'.pc # "cancel" /\ alive
             /\ loop.remainingNeeded >= MinRemaining * TokenScale) => PostsOneIncrement]_vars


\* The best taker odds read from the order book of the market the loop is at, and the
\* target bestTakerOdds x (1 - edge/100), both lie strictly between 0 and 1.
ValidPrice ==
    LET taker == bestTakerOdds(orderBooks[loop.m], loop.cfg.outcome = 1, loop.cfg.minOrderSize)
    IN  /\ 0 < taker /\ taker < PriceScale
        /\ 0 < taker * (100 - loop.cfg.edge)
        /\ taker * (100 - loop.cfg.edge) < 100 * PriceScale

\* C29: postOrderForPosition goes on to sign and submit only at best taker odds and a
\* target strictly between 0 and 1; a step of the tick that ends at another price
\* submits nothing and, where postOrderForPosition is all that is left of the tick,
\* leaves the registry as it is.  Nothing is submitted or created but through it.
C29_SubmitsOnlyAtValidPrice ==
    [][/\ (loop.pc \in {"fetch", "cancel"} /\ loop'.pc = "sign") => ValidPrice
       /\ (loop.pc \in {"fetch", "cancel"} /\ loop'.pc # loop.pc /\ ~ValidPrice) =>
             /\ loop'.pc \notin {"sign", "post"}
             /\ nextId' = nextId /\ exOrders' \subseteq exOrders
             /\ (loop.pc = "fetch"
                   \/ ~TooSmallToRepost(Min2(loop.remainingNeeded, loop.cfg.increments * TokenScale)))
                  => monitoringConfig' = monitoringConfig
       /\ (loop'.pc = "sign" /\ loop.pc # "sign") => loop.pc \in {"fetch", "cancel"}
       /\ (loop'.pc = "post" /\ loop.pc # "post") => loop.pc = "sign"
       /\ nextId' # nextId => loop.pc = "post"]_vars

\* C29 witness: the tick of a registered market whose store is empty (vig 0, best
\* taker odds 1) has ended without an error and without an order.
C29_Witness ==
    /\ loop.pc = "sleep" /\ loop.visited = {"m1"} /\ loop.caught = {}
    /\ MapHas(monitoringConfig, "m1")
    /\ orderBooks["m1"] = << >>
    /\ stops["m1"].pc = "idle"
    /\ nextId = 0 /\ exOrders = {}


\* C30: a call of postOrderForPosition submits at most once (one signature, then one
\* request, then the return); it returns the hash of the order after a success
\* response and null after a failed request, a throwing signature or an abort, and
\* nothing it does lands in the loop's catch.
C30_OneSubmissionHashOrNull ==
    [][/\ (loop.pc = "post" /\ loop'.pc # "post" /\ alive) =>
             /\ loop'.pc \in {"fill", "sleep"}
             /\ IF nextId' # nextId
                THEN /\ loop'.returned = Hash(nextId')
                     /\ \E o \in exOrders' \ exOrders : o.orderHash = nextId'
                ELSE loop'.returned = Null /\ exOrders' = exOrders
       /\ (loop.pc = "sign" /\ loop'.pc # "sign") =>
             \/ loop'.pc = "post" /\ loop'.returned = loop.returned
             \/ loop'.pc \in {"fill", "sleep"} /\ loop'.returned = Null /\ nextId' = nextId
       /\ (loop.pc \in {"fetch", "cancel"} /\ loop'.pc \notin {"fetch", "cancel"}) =>
             loop'.returned \in {NotReturned, Null}
       /\ (loop'.pc = "sign" /\ loop.pc # "sign") => loop.pc \in {"fetch", "cancel"}
       /\ (loop'.pc = "post" /\ loop.pc # "post") => loop.pc = "sign"
       /\ nextId' # nextId => loop.pc = "post"
       /\ loop.pc \in {"sign", "post"} => loop.m \notin loop'.caught]_vars

\* C30 witness: the call has returned the hash of the order the exchange created.
C30_Witness ==
    /\ loop.pc = "sleep"
    /\ loop.returned.kind = "hash"
    /\ \E o \in exOrders : o.orderHash = loop.returned.orderHash

\* C31: a failed cancel request (the step of the cancel's end after which the orders
\* it names are still active on the exchange) is swallowed: the tick does not land in the loop's
\* catch, no second request is made, and processMarket goes on as after a cancel that
\* took effect (returns in the high-vig branch; sizes and posts the replacement, or
\* removes the position, in the repricing branch).
C31_FailedCancelIsSwallowed ==
    [][( /\ loop.pc \in {"vigCancel", "cancel"}
         /\ loop'.pc # loop.pc
         /\ exOrders' = exOrders
         /\ \E o \in exOrders : o.orderHash \in loop.orderHashes ) =>
          /\ loop'.caught = loop.caught
          /\ loop'.pc \notin {"vigCancel", "cancel"}
          /\ loop.pc = "vigCancel" =>
                /\ loop'.pc \in {"fill", "sleep"}
                /\ monitoringConfig' = monitoringConfig
          /\ loop.pc = "cancel" =>
                LET size == sizeToPost(loop.remainingNeeded, loop.cfg.increments)
                IN  IF TooSmallToRepost(size)
                    THEN ~MapHas(monitoringConfig', loop.m)
                    ELSE /\ monitoringConfig' = monitoringConfig
                         /\ \/ loop'.pc = "sign" /\ loop'.amount = size
                            \/ loop'.returned = Null]_vars

\* C31 witness: the repricing cancel failed, the stale order is still active, and the
\* tick has gone on to sign the replacement.
C31_Witness ==
    /\ loop.pc = "sign"
    /\ loop.attempt = 0
    /\ \E o \in exOrders : o.marketHash = loop.m /\ o.percentageOdds # loop.percentageOdds

\* processMarket is awaiting fetchActiveOrders.
InFetch == loop.pc \in {"vigFetch", "fetch"}

\* C32: fetchActiveOrders makes at most MaxRetries attempts; a successful attempt ends
\* the call with its data; a failed attempt is followed by one wait and another
\* attempt unless it was the last, which ends the call with [] and without a wait;
\* and the call always ends.
C32_FetchActiveOrdersRetries ==
    /\ [](InFetch => loop.attempt < MaxRetries /\ loop.waits = loop.attempt)
    /\ [](loop.waits < MaxRetries)
    /\ [][/\ (InFetch /\ LoopFetch("ok")) =>
               LET activeOrders == ActiveOrders(exOrders, loop.m)
               IN  /\ loop'.pc \notin {"vigFetch", "fetch"}
                   /\ loop'.pc \in {"vigCancel", "cancel", "sign"} => loop'.waits = loop.waits
                   /\ activeOrders # {} =>
                         /\ loop'.pc # "sign" /\ loop'.returned = NotReturned
                         /\ loop'.pc \in {"vigCancel", "cancel"} =>
                               loop'.orderHashes = HashesOf(activeOrders)
                         /\ loop.pc = "vigFetch" => loop'.pc = "vigCancel"
          /\ (InFetch /\ LoopFetch("fail")) =>
               IF loop.attempt + 1 < MaxRetries
               THEN loop' = [loop EXCEPT !.attempt = @ + 1, !.waits = @ + 1]
               ELSE /\ loop'.pc \notin {"vigFetch", "fetch", "vigCancel", "cancel"}
                    /\ loop.pc = "vigFetch" => loop'.pc \in {"fill", "sleep"}
                    /\ loop.pc = "fetch" => loop'.pc = "sign" \/ loop'.returned = Null
                    /\ loop'.pc = "sign" => loop'.waits = loop.waits]_vars
    /\ (InFetch ~> ~InFetch)

\* C32 witness: every attempt failed, two waits were made, and the tick went on with
\* the empty list.
C32_Witness ==
    /\ loop.pc = "sign"
    /\ loop.attempt = MaxRetries - 1
    /\ loop.waits = MaxRetries - 1

\* C33: the 'no active orders' branch of processMarket goes on to post only in a step
\* in which fetchActiveOrders returned the data of a successful attempt.
C33_PostsOnlyAfterSuccessfulFetch ==
    [][(loop.pc = "fetch" /\ loop'.pc = "sign") => LoopFetch("ok")]_vars

\* C34: when the fill query of a tick fails (in a step that is not also the step of a
\* successful query: the exchange has trades to report), processMarket returns at once
\* for that market: the registry is as before and the tick goes on to no fetch, cancel
\* or post.
C34_FailedFillQuerySkipsTheTick ==
    [][(loop.pc = "fill" /\ FilledVolume(FALSE) /\ ~FilledVolume(TRUE)) =>
          /\ loop'.pc \in {"fill", "sleep"}
          /\ loop'.pc = "fill" => loop'.m # loop.m
          /\ monitoringConfig' = monitoringConfig]_vars

\* The records a market is handed in a step, and whether the store was handed the
\* same records, in the same order, before.
BatchOf(m) == SubSeq(received'[m], Len(received[m]) + 1, Len(received'[m]))
DuplicateBatch(m) ==
    /\ BatchOf(m) # << >>
    /\ \E k \in 1..Len(received[m]) :
          /\ k + Len(BatchOf(m)) - 1 <= Len(received[m])
          /\ SubSeq(received[m], k, k + Len(BatchOf(m)) - 1) = BatchOf(m)

\* C35: handing a market a batch it was handed before leaves the best taker odds of
\* either side and the vig (exact and as the double the source computes) as they
\* were, for every minOrderSize.
C35_DuplicateBatchChangesNoDerivedValue ==
    [][\A m \in Markets :
          DuplicateBatch(m) =>
             \A minOrderSize \in MinOrderSizes :
                /\ \A isUserBettingOutcomeOne \in BOOLEAN :
                      bestTakerOdds(orderBooks'[m], isUserBettingOutcomeOne, minOrderSize)
                        = bestTakerOdds(orderBooks[m], isUserBettingOutcomeOne, minOrderSize)
                /\ getVigFromOrderBook(orderBooks'[m], minOrderSize)
                     = getVigFromOrderBook(orderBooks[m], minOrderSize)
                /\ vigNumber(orderBooks'[m], minOrderSize) = vigNumber(orderBooks[m], minOrderSize)]_vars

\* C35 witness: the store holds an entry, a better one of the same side, and the
\* first one again; the best taker odds are those against the better one.
C35_Witness ==
    /\ Len(orderBooks["m1"]) = 3
    /\ orderBooks["m1"][3] = orderBooks["m1"][1]
    /\ orderBooks["m1"][2].isMakerBettingOutcomeOne = orderBooks["m1"][1].isMakerBettingOutcomeOne
    /\ orderBooks["m1"][2].percentageOdds > orderBooks["m1"][1].percentageOdds
    /\ bestTakerOdds(orderBooks["m1"], ~orderBooks["m1"][1].isMakerBettingOutcomeOne, 100)
         = PriceScale - orderBooks["m1"][2].percentageOdds

\* C36: the loop ends only when the process exits, which only the sweep of stopAll or
\* of a termination signal brings about; every iteration ends, having evaluated every
\* market registered at its end; and while the process lives a registered market is
\* evaluated again after every sleep unless it is removed first.
C36_LoopRunsUntilStopAll ==
    /\ [][/\ loop'.pc = "dead" => ~alive'
          /\ (alive /\ ~alive') =>
                \/ sweep.pc \in {"fetch", "cancel"}
                \/ sweep.pc = "idle" /\ monitoringConfig = << >>
          /\ (loop.pc # "sleep" /\ loop'.pc = "sleep") =>
                MapKeys(monitoringConfig') \subseteq loop'.visited]_vars
    /\ (alive ~> (loop.pc = "sleep" \/ ~alive))
    /\ \A m \in Markets :
          (alive /\ loop.pc = "sleep" /\ MapHas(monitoringConfig, m))
             ~> (\/ loop.pc = "fill" /\ loop.m = m
                 \/ ~MapHas(monitoringConfig, m)
                 \/ ~alive)

\* C36 witness: market m1 was removed as complete in the middle of an iteration and
\* the same iteration is evaluating m2, which is still registered.
C36_Witness ==
    /\ alive
    /\ loop.pc = "fill" /\ loop.m = "m2"
    /\ "m1" \in loop.visited
    /\ ~MapHas(monitoringConfig, "m1")
    /\ MapHas(monitoringConfig, "m2")
    /\ trades["m1"] > 0

\* C37: the order the operator has on a market whose order book, configuration and
\* fill no longer change is at the desired laddered price, and once it is there no
\* tick cancels or posts for that market.
C37_NoChurnAtRest ==
    [][/\ \A o \in exOrders' :
             MapHas(monitoringConfig', o.marketHash) =>
                LET cfg == MapGet(monitoringConfig', o.marketHash)
                IN  o.percentageOdds =
                      LadderedOdds(bestTakerOdds(orderBooks'[o.marketHash], cfg.outcome = 1,
                                                 cfg.minOrderSize), cfg.edge)
       /\ (InProcessMarket /\ loop'.m = loop.m /\ \E o \in exOrders : o.marketHash = loop.m)
             => loop'.pc \notin {"vigCancel", "cancel", "sign"} \/ loop'.pc = loop.pc]_vars

\* C38: no step lowers the best opposing maker probability of a market, for either
\* side and every minOrderSize, so no step raises the best taker odds.
C38_BestOpposingNeverDrops ==
    [][\A m \in Markets, isUserBettingOutcomeOne \in BOOLEAN, minOrderSize \in MinOrderSizes :
          /\ bestMakerProbOpposite(orderBooks'[m], isUserBettingOutcomeOne, minOrderSize)
               >= bestMakerProbOpposite(orderBooks[m], isUserBettingOutcomeOne, minOrderSize)
          /\ bestTakerOdds(orderBooks'[m], isUserBettingOutcomeOne, minOrderSize)
               <= bestTakerOdds(orderBooks[m], isUserBettingOutcomeOne, minOrderSize)]_vars

\* C38 witness: the store was handed an opposing entry and then a worse one of the
\* same side; the best opposing probability is still the first one's.
C38_Witness ==
    /\ Len(orderBooks["m1"]) >= 2
    /\ ~orderBooks["m1"][1].isMakerBettingOutcomeOne
    /\ ~orderBooks["m1"][Len(orderBooks["m1"])].isMakerBettingOutcomeOne
    /\ orderBooks["m1"][Len(orderBooks["m1"])].percentageOdds < orderBooks["m1"][1].percentageOdds
    /\ bestMakerProbOpposite(orderBooks["m1"], TRUE, 100) = orderBooks["m1"][1].percentageOdds

\* The store holds no entry of at least minOrderSize units (sizes are kept in 1e-4 units).
NoQualifyingEntry(orders, minOrderSize) ==
    \A i \in 1..Len(orders) : orders[i].totalBetSize < minOrderSize * 10000

\* C39: while the store of the market being evaluated holds no qualifying entry, the
\* tick goes on to no cancel request, no signature and no submission, and no order is
\* created.
C39_NothingSentWithoutQualifyingEntry ==
    [][(InProcessMarket /\ NoQualifyingEntry(orderBooks[loop.m], loop.cfg.minOrderSize)) =>
          /\ loop'.pc \in {"vigCancel", "cancel", "sign", "post"} => loop'.m # loop.m
          /\ loop.pc \notin {"vigCancel", "cancel", "sign", "post"}
          /\ nextId' = nextId]_vars

\* C39 witness: a tick evaluated m1 while its store held entries but none of the
\* position's minOrderSize; postOrderForPosition returned null and the operator has
\* no order.
C39_Witness ==
    /\ loop.pc = "sleep"
    /\ "m1" \in loop.visited
    /\ loop.returned = Null
    /\ MapHas(monitoringConfig, "m1")
    /\ Len(orderBooks["m1"]) > 0
    /\ NoQualifyingEntry(orderBooks["m1"], MapGet(monitoringConfig, "m1").minOrderSize)
    /\ exOrders = {}

====
